---- MODULE Spec2Model ----
(***************************************************************************)
(* Shop Steward: the file-organization engine (src/shop_steward.py) and    *)
(* its debounced directory watcher.                                        *)
(*                                                                         *)
(* Text is modelled as a sequence of one-character strings, a path as a    *)
(* sequence of names (the components below the filesystem anchor "/").     *)
(***************************************************************************)
EXTENDS Integers, Sequences, FiniteSets, TLC

(***************************************************************************)
(* Characters and text                                                     *)
(***************************************************************************)
UpperSeq == <<"A", "B", "C", "D", "E", "F", "G", "H", "I", "J", "K", "L", "M",
              "N", "O", "P", "Q", "R", "S", "T", "U", "V", "W", "X", "Y", "Z">>
LowerSeq == <<"a", "b", "c", "d", "e", "f", "g", "h", "i", "j", "k", "l", "m",
              "n", "o", "p", "q", "r", "s", "t", "u", "v", "w", "x", "y", "z">>
UpperSet == {UpperSeq[i] : i \in 1..Len(UpperSeq)}
LowerSet == {LowerSeq[i] : i \in 1..Len(LowerSeq)}
LetterSet == UpperSet \cup LowerSet
DigitSet == {"0", "1", "2", "3", "4", "5", "6", "7", "8", "9"}
AlnumSet == LetterSet \cup DigitSet
\* every character a name of the model can hold ("." of a regex: any of them)
AnyChar == AlnumSet \cup {"-", "_", ".", " ", "~", "/"}

\* Python's None where a text is expected: no text of the model equals it
None == <<"None">>

LetterIndex == [c \in LetterSet |->
                  CHOOSE i \in 1..Len(UpperSeq) : UpperSeq[i] = c \/ LowerSeq[i] = c]
UpperMap == [c \in AnyChar |-> IF c \in LowerSet THEN UpperSeq[LetterIndex[c]] ELSE c]
LowerMap == [c \in AnyChar |-> IF c \in UpperSet THEN LowerSeq[LetterIndex[c]] ELSE c]

\* str.upper() and str.lower()
upper(s) == [i \in 1..Len(s) |-> UpperMap[s[i]]]
lower(s) == [i \in 1..Len(s) |-> LowerMap[s[i]]]

\* both letter cases of a character: a literal under re.IGNORECASE
BothCases(c) == {UpperMap[c], LowerMap[c]}

SetMin(S) == CHOOSE x \in S : \A y \in S : x <= y
SetMax(S) == CHOOSE x \in S : \A y \in S : x >= y

(***************************************************************************)
(* The regular expressions of the engine.  A pattern is a sequence of      *)
(* alternatives tried in order; an alternative is a sequence of atoms (a   *)
(* character class repeated lo..hi times, greedy), optionally anchored,    *)
(* with one capture group spanning atoms gs..ge (0: no group).               *)
(***************************************************************************)
\* many: no upper limit on the repetition (hi is then unused)
Atom(cls, lo, hi, many) == [cls |-> cls, lo |-> lo, hi |-> hi, many |-> many]
Lit(c) == Atom(BothCases(c), 1, 1, FALSE)
One(cls) == Atom(cls, 1, 1, FALSE)
Plus(cls) == Atom(cls, 1, 1, TRUE)
AtLeast(cls, n) == Atom(cls, n, n, TRUE)
Opt(cls) == Atom(cls, 0, 1, FALSE)
Alt(atoms, gs, ge, anchorStart, anchorEnd) ==
    [atoms |-> atoms, gs |-> gs, ge |-> ge, anchorStart |-> anchorStart, anchorEnd |-> anchorEnd]

NoMatch == [ok |-> FALSE, ends |-> <<>>]

\* how many characters from position pos on atom at can take
RunLen(s, pos, at) ==
    LET Capped(n) == IF ~at.many /\ n > at.hi THEN at.hi ELSE n
    IN  Capped(SetMin({k \in pos..Len(s) : s[k] \notin at.cls} \cup {Len(s) + 1}) - pos)

RECURSIVE MatchFrom(_, _, _, _), TryCount(_, _, _, _, _)
\* atoms n.. of alternative a matched at position pos, by backtracking:
\* [ok, ends] with ends[k] the position after atom n+k-1
MatchFrom(a, n, s, pos) ==
    LET Try(most) == IF most < a.atoms[n].lo THEN NoMatch ELSE TryCount(a, n, s, pos, most)
    IN  IF n > Len(a.atoms)
        THEN IF a.anchorEnd /\ pos # Len(s) + 1 THEN NoMatch ELSE [ok |-> TRUE, ends |-> <<>>]
        ELSE Try(RunLen(s, pos, a.atoms[n]))
\* greedy: the longest repetition first, shorter ones on failure of the rest
TryCount(a, n, s, pos, c) ==
    LET Continue(rest) ==
            IF rest.ok THEN [ok |-> TRUE, ends |-> <<pos + c>> \o rest.ends]
            ELSE IF c > a.atoms[n].lo THEN TryCount(a, n, s, pos, c - 1)
            ELSE NoMatch
    IN  Continue(MatchFrom(a, n + 1, s, pos + c))

\* one alternative at one start position
MatchAltAt(a, s, pos) ==
    IF a.anchorStart /\ pos # 1 THEN NoMatch ELSE MatchFrom(a, 1, s, pos)

RECURSIVE MatchAt(_, _, _, _)
\* the pattern at one start position: the first alternative that matches;
\* [ok, start, stop (position after the match), group]
MatchAt(pat, k, s, pos) ==
    LET Matched(a, m) ==
            IF m.ok
            THEN [ok |-> TRUE, start |-> pos,
                  stop |-> IF Len(a.atoms) = 0 THEN pos ELSE m.ends[Len(a.atoms)],
                  group |-> IF a.gs = 0 THEN <<>>
                            ELSE SubSeq(s, IF a.gs = 1 THEN pos ELSE m.ends[a.gs - 1],
                                        m.ends[a.ge] - 1)]
            ELSE MatchAt(pat, k + 1, s, pos)
    IN  IF k > Len(pat) THEN [ok |-> FALSE]
        ELSE Matched(pat[k], MatchAltAt(pat[k], s, pos))

\* re.match: at the start of the text only
re_match(pat, s) == MatchAt(pat, 1, s, 1)

\* re.search: the leftmost start position with a match
re_search(pat, s) ==
    LET First(starts) ==
            IF starts = {} THEN [ok |-> FALSE] ELSE MatchAt(pat, 1, s, SetMin(starts))
    IN  First({p \in 1..(Len(s) + 1) : MatchAt(pat, 1, s, p).ok})

RECURSIVE SubFrom(_, _, _, _)
\* re.sub(pat, repl, s): every non-overlapping match, left to right, replaced
\* (the patterns of the engine match no empty text)
SubFrom(pat, repl, s, pos) ==
    LET Replaced(m) ==
            IF m.ok /\ m.stop > pos
            THEN repl \o SubFrom(pat, repl, s, m.stop)
            ELSE <<s[pos]>> \o SubFrom(pat, repl, s, pos + 1)
    IN  IF pos > Len(s) THEN <<>> ELSE Replaced(MatchAt(pat, 1, s, pos))
re_sub(pat, repl, s) == SubFrom(pat, repl, s, 1)

\* re.escape(text) under re.IGNORECASE: the text itself, letter case ignored
Escaped(text) == [i \in 1..Len(text) |-> Lit(text[i])]

(***************************************************************************)
(* Class data of ShopSteward                                               *)
(***************************************************************************)
LOG_FILENAME == <<"s", "h", "o", "p", "_", "s", "t", "e", "w", "a", "r", "d", ".", "l", "o", "g">>

\* the extension lists, in declared order
FILE_CATEGORIES == <<
    [key |-> "CAD", exts |-> <<
         <<".", "s", "t", "e", "p">>,
         <<".", "s", "t", "p">>,
         <<".", "i", "g", "s">>,
         <<".", "i", "g", "e", "s">>,
         <<".", "s", "t", "l">>,
         <<".", "d", "w", "g">>,
         <<".", "d", "x", "f">>,
         <<".", "c", "a", "t", "p", "a", "r", "t">>,
         <<".", "c", "a", "t", "p", "r", "o", "d", "u", "c", "t">>,
         <<".", "p", "r", "t">>,
         <<".", "s", "l", "d", "p", "r", "t">>,
         <<".", "s", "l", "d", "a", "s", "m">>>>],
    [key |-> "CAM", exts |-> <<
         <<".", "m", "c", "a", "m">>,
         <<".", "c", "a", "m">>,
         <<".", "c", "a", "m", "p", "r", "o", "j">>,
         <<".", "n", "c", "l">>,
         <<".", "n", "c", "p">>,
         <<".", "o", "p", "e", "r", "a", "t", "i", "o", "n", "s">>>>],
    [key |-> "NC_UNPROVEN", exts |-> <<
         <<".", "n", "c">>,
         <<".", "c", "n", "c">>,
         <<".", "t", "a", "p">>,
         <<".", "m", "p", "f">>,
         <<".", "n", "g", "c">>,
         <<".", "e", "i", "a">>,
         <<".", "m", "i", "n">>,
         <<".", "d", "i", "n">>>>],
    [key |-> "MPI", exts |-> <<
         <<".", "p", "d", "f">>,
         <<".", "d", "o", "c">>,
         <<".", "d", "o", "c", "x">>,
         <<".", "t", "x", "t">>,
         <<".", "x", "l", "s", "x">>,
         <<".", "x", "l", "s">>>>]>>

\* r'([A-Z0-9]{2,}-[A-Z0-9]{2,})', r'([A-Z]{2,}\d{3,})', r'(\d{4,}-\d{2,})',
\* r'([A-Z]\d{4,})', searched with re.IGNORECASE
PART_NUMBER_PATTERNS == <<
    <<Alt(<<AtLeast(AlnumSet, 2), One({"-"}), AtLeast(AlnumSet, 2)>>, 1, 3, FALSE, FALSE)>>,
    <<Alt(<<AtLeast(LetterSet, 2), AtLeast(DigitSet, 3)>>, 1, 2, FALSE, FALSE)>>,
    <<Alt(<<AtLeast(DigitSet, 4), One({"-"}), AtLeast(DigitSet, 2)>>, 1, 3, FALSE, FALSE)>>,
    <<Alt(<<One(LetterSet), AtLeast(DigitSet, 4)>>, 1, 2, FALSE, FALSE)>> >>

\* r'(?:REV|Rev|rev)[-_]?([A-Z0-9]+)', r'(?:R|r)(\d+)', r'(?:V|v)(\d+)',
\* r'[-_]([A-Z])(?:[-_\.]|$)', searched with re.IGNORECASE
REVISION_PATTERNS == <<
    <<Alt(<<Lit("R"), Lit("E"), Lit("V"), Opt({"-", "_"}), Plus(AlnumSet)>>, 5, 5, FALSE, FALSE)>>,
    <<Alt(<<Lit("R"), Plus(DigitSet)>>, 2, 2, FALSE, FALSE)>>,
    <<Alt(<<Lit("V"), Plus(DigitSet)>>, 2, 2, FALSE, FALSE)>>,
    <<Alt(<<One({"-", "_"}), One(LetterSet), One({"-", "_", "."})>>, 2, 2, FALSE, FALSE),
      Alt(<<One({"-", "_"}), One(LetterSet)>>, 2, 2, FALSE, TRUE)>> >>

\* r'^([A-Z0-9\-]+)_(REV-[A-Z0-9]+|R\d+|V\d+)_(.+)\.[a-z0-9]+$', matched with
\* re.IGNORECASE; the inner alternation is written out as three alternatives
NamingAlt(token) ==
    Alt(<<Plus(AlnumSet \cup {"-"}), One({"_"})>> \o token
          \o <<One({"_"}), Plus(AnyChar), One({"."}), Plus(AlnumSet)>>,
        0, 0, TRUE, TRUE)
NAMING_CONVENTION_PATTERN == <<
    NamingAlt(<<Lit("R"), Lit("E"), Lit("V"), One({"-"}), Plus(AlnumSet)>>),
    NamingAlt(<<Lit("R"), Plus(DigitSet)>>),
    NamingAlt(<<Lit("V"), Plus(DigitSet)>>) >>

(***************************************************************************)
(* pathlib: the suffix and the stem of a final path component              *)
(***************************************************************************)
LastDot(name) ==
    LET Last(dots) == IF dots = {} THEN 0 ELSE SetMax(dots)
    IN  Last({k \in 1..Len(name) : name[k] = "."})
\* a dot that neither starts nor ends the name begins the suffix
DotSplits(name, dot) == dot > 1 /\ dot < Len(name)
HasSuffix(name) == DotSplits(name, LastDot(name))
suffix(name) ==
    LET From(dot) == IF DotSplits(name, dot) THEN SubSeq(name, dot, Len(name)) ELSE <<>>
    IN  From(LastDot(name))
stem(name) ==
    LET UpTo(dot) == IF DotSplits(name, dot) THEN SubSeq(name, 1, dot - 1) ELSE name
    IN  UpTo(LastDot(name))

(***************************************************************************)
(* PatternExtractor, NamingValidator, Classifier                           *)
(***************************************************************************)
RECURSIVE FirstGroup(_, _, _)
\* the patterns in declared order: the group of the first that matches, upper-cased
FirstGroup(patterns, k, filename) ==
    LET Found(m) == IF m.ok THEN upper(m.group) ELSE FirstGroup(patterns, k + 1, filename)
    IN  IF k > Len(patterns) THEN None ELSE Found(re_search(patterns[k], filename))

\* extract_part_number walking the pattern list from its end
extract_part_number_backwards(filename) ==
    FirstGroup([i \in 1..Len(PART_NUMBER_PATTERNS) |->
                   PART_NUMBER_PATTERNS[Len(PART_NUMBER_PATTERNS) + 1 - i]], 1, filename)
extract_part_number(filename) == FirstGroup(PART_NUMBER_PATTERNS, 1, filename)

extract_revision(filename) == FirstGroup(REVISION_PATTERNS, 1, filename)

\* Python's None where a diagnostic is expected
NoError == "None"
MSG_BOTH == "Missing both part number and revision"
MSG_PART == "Missing part number"
MSG_REV == "Missing revision level"
MSG_FORMAT == "Incorrect format - expected: PARTNUMBER_REV-X_description.ext"

\* validate_naming_convention with the tests of lines 200 and 202 exchanged
validate_naming_convention_swapped(filename) ==
    LET Diagnosed(part_num, revision) ==
            IF part_num = None /\ revision = None THEN [valid |-> FALSE, error |-> MSG_BOTH]
            ELSE IF revision = None THEN [valid |-> FALSE, error |-> MSG_PART]
            ELSE IF part_num = None THEN [valid |-> FALSE, error |-> MSG_REV]
            ELSE [valid |-> FALSE, error |-> MSG_FORMAT]
    IN  IF re_match(NAMING_CONVENTION_PATTERN, filename).ok
        THEN [valid |-> TRUE, error |-> NoError]
        ELSE Diagnosed(extract_part_number(filename), extract_revision(filename))
validate_naming_convention(filename) ==
    LET Diagnosed(part_num, revision) ==
            IF part_num = None /\ revision = None THEN [valid |-> FALSE, error |-> MSG_BOTH]
            ELSE IF part_num = None THEN [valid |-> FALSE, error |-> MSG_PART]
            ELSE IF revision = None THEN [valid |-> FALSE, error |-> MSG_REV]
            ELSE [valid |-> FALSE, error |-> MSG_FORMAT]
    IN  IF re_match(NAMING_CONVENTION_PATTERN, filename).ok
        THEN [valid |-> TRUE, error |-> NoError]
        ELSE Diagnosed(extract_part_number(filename), extract_revision(filename))

Separators == {"-", "_", " "}
REV_PREFIX == <<"R", "E", "V", "-">>
DEFAULT_DESCRIPTION == <<"f", "i", "l", "e">>

\* f"(?:REV|Rev|rev|R|r|V|v)[-_]?{re.escape(revision)}" with re.IGNORECASE
RevisionTokenPattern(revision) == <<
    Alt(<<Lit("R"), Lit("E"), Lit("V"), Opt({"-", "_"})>> \o Escaped(revision),
        0, 0, FALSE, FALSE),
    Alt(<<Lit("R"), Opt({"-", "_"})>> \o Escaped(revision), 0, 0, FALSE, FALSE),
    Alt(<<Lit("V"), Opt({"-", "_"})>> \o Escaped(revision), 0, 0, FALSE, FALSE) >>

\* r'^[-_\s]+|[-_\s]+$' and r'[-_\s]+'
EdgeSeparators == <<Alt(<<Plus(Separators)>>, 0, 0, TRUE, FALSE),
                    Alt(<<Plus(Separators)>>, 0, 0, FALSE, TRUE)>>
SeparatorRun == <<Alt(<<Plus(Separators)>>, 0, 0, FALSE, FALSE)>>

\* suggest_filename of a path: only the final component (its stem and suffix) is read
suggest_filename(name) ==
    LET \* the description: the stem without part number and revision token,
        \* separators stripped at the ends and runs of them made one "_"
        Unrevised(description, revision) ==
            IF revision # None
            THEN re_sub(RevisionTokenPattern(revision), <<>>, description)
            ELSE description
        Description(filename, part_num, revision) ==
            re_sub(SeparatorRun, <<"_">>,
              re_sub(EdgeSeparators, <<>>,
                Unrevised(re_sub(<<Alt(Escaped(part_num), 0, 0, FALSE, FALSE)>>, <<>>, filename),
                          revision)))
        OrDefault(description) ==
            IF description = <<>> THEN DEFAULT_DESCRIPTION ELSE description
        Cased(suggested, extension) ==
            IF lower(extension) # extension THEN lower(suggested) ELSE suggested
        Suggested(filename, extension, part_num, revision) ==
            IF part_num = None THEN None
            ELSE Cased(part_num \o <<"_">>
                         \o REV_PREFIX \o (IF revision # None THEN revision ELSE <<"A">>)
                         \o <<"_">> \o OrDefault(Description(filename, part_num, revision))
                         \o extension,
                       extension)
        Of(filename, extension) ==
            Suggested(filename, extension,
                      extract_part_number(filename), extract_revision(filename))
    IN  Of(stem(name), suffix(name))

\* Python's None where a category key is expected
NoCategory == "None"

RECURSIVE FirstCategory(_, _)
FirstCategory(k, extension) ==
    IF k > Len(FILE_CATEGORIES) THEN NoCategory
    ELSE IF \E i \in 1..Len(FILE_CATEGORIES[k].exts) : FILE_CATEGORIES[k].exts[i] = extension
         THEN FILE_CATEGORIES[k].key
         ELSE FirstCategory(k + 1, extension)

\* categorize_file without the .lower() of line 486
categorize_file_cased(name) == FirstCategory(1, suffix(name))
\* categorize_file of a path: only the suffix of the final component is read
categorize_file(name) == FirstCategory(1, lower(suffix(name)))

(***************************************************************************)
(* The filesystem.  A path is the sequence of its components below the     *)
(* anchor "/"; fs.dirs is the set of directories, fs.files maps every      *)
(* regular file to its content (an identity that a move carries along).    *)
(***************************************************************************)
Anchor == <<"/">>
FsRoot == <<>>

exists(fs, p) == p \in fs.dirs \/ p \in DOMAIN fs.files
is_file(fs, p) == p \in DOMAIN fs.files
is_dir(fs, p) == p \in fs.dirs

parent(p) == SubSeq(p, 1, Len(p) - 1)
name(p) == IF p = FsRoot THEN <<>> ELSE p[Len(p)]
\* Path.parts of an absolute path: the anchor, then the components
parts(p) == <<Anchor>> \o p
RECURSIVE SplitFrom(_, _, _)
SplitFrom(text, pos, acc) ==
    IF pos > Len(text) THEN (IF acc = <<>> THEN <<>> ELSE <<acc>>)
    ELSE IF text[pos] = "/"
         THEN (IF acc = <<>> THEN <<>> ELSE <<acc>>) \o SplitFrom(text, pos + 1, <<>>)
         ELSE SplitFrom(text, pos + 1, Append(acc, text[pos]))
\* the components of a path text
SplitPath(text) == SplitFrom(text, 1, <<>>)
\* base / text: an absolute text replaces the base
Join(base, text) ==
    IF text # <<>> /\ text[1] = "/" THEN SplitPath(text) ELSE base \o SplitPath(text)
IsPrefix(d, p) == Len(d) <= Len(p) /\ SubSeq(p, 1, Len(d)) = d
\* Path.is_relative_to
is_relative_to(p, d) == IsPrefix(d, p)

Prefixes(p) == {SubSeq(p, 1, k) : k \in 0..Len(p)}

\* Path.mkdir(parents=True, exist_ok=True): raises when a regular file lies on the way
mkdir(fs, p) ==
    IF \E q \in Prefixes(p) : is_file(fs, q)
    THEN [raised |-> TRUE, fs |-> fs]
    ELSE [raised |-> FALSE, fs |-> [fs EXCEPT !.dirs = @ \cup Prefixes(p)]]

Restrict(f, S) == [x \in S |-> f[x]]

\* os.rename of a regular file (POSIX): an existing regular file at dst is replaced
os_rename_file(fs, src, dst) ==
    IF ~is_file(fs, src) \/ ~is_dir(fs, parent(dst)) \/ is_dir(fs, dst)
    THEN [raised |-> TRUE, fs |-> fs]
    ELSE [raised |-> FALSE,
          fs |-> [fs EXCEPT !.files =
                    [q \in (DOMAIN fs.files \ {src}) \cup {dst} |->
                        IF q = dst THEN fs.files[src] ELSE fs.files[q]]]]

\* the tree under src re-rooted at dst
Rebase(p, src, dst) == dst \o SubSeq(p, Len(src) + 1, Len(p))
os_rename_dir(fs, src, dst) ==
    LET Moved(movedDirs, movedFiles) ==
            [raised |-> FALSE,
             fs |-> [dirs |-> (fs.dirs \ movedDirs) \cup {Rebase(d, src, dst) : d \in movedDirs},
                     files |-> [q \in (DOMAIN fs.files \ movedFiles)
                                        \cup {Rebase(f, src, dst) : f \in movedFiles} |->
                                  IF q \in DOMAIN fs.files \ movedFiles THEN fs.files[q]
                                  ELSE fs.files[CHOOSE f \in movedFiles :
                                                    Rebase(f, src, dst) = q]]]]
    IN  IF ~is_dir(fs, parent(dst)) \/ exists(fs, dst) \/ IsPrefix(src, dst)
        THEN [raised |-> TRUE, fs |-> fs]
        ELSE Moved({d \in fs.dirs : IsPrefix(src, d)},
                   {f \in DOMAIN fs.files : IsPrefix(src, f)})

\* shutil.move(src, dst): into dst when dst is a directory, else onto dst
shutil_move(fs, src, dst) ==
    LET To(real_dst) ==
            IF is_dir(fs, dst) /\ exists(fs, real_dst) THEN [raised |-> TRUE, fs |-> fs]
            ELSE IF is_dir(fs, src) THEN os_rename_dir(fs, src, real_dst)
            ELSE os_rename_file(fs, src, real_dst)
    IN  To(IF is_dir(fs, dst) THEN Append(dst, name(src)) ELSE dst)

(***************************************************************************)
(* Names and the clock                                                     *)
(***************************************************************************)
\* the folder layout, in declared order
FOLDERS == <<
    [key |-> "CAD",
     value |-> <<"C", "A", "D">>],
    [key |-> "CAM",
     value |-> <<"C", "A", "M">>],
    [key |-> "NC_FILES",
     value |-> <<"N", "C", " ", "F", "i", "l", "e", "s">>],
    [key |-> "NC_PROVEN",
     value |-> <<"N", "C", " ", "F", "i", "l", "e", "s", "/", "P", "R", "O", "V", "E", "N">>],
    [key |-> "NC_UNPROVEN",
     value |-> <<"N", "C", " ", "F", "i", "l", "e", "s", "/", "U", "N", "P", "R", "O", "V", "E", "N">>],
    [key |-> "MPI",
     value |-> <<"M", "P", "I">>],
    [key |-> "ARCHIVE",
     value |-> <<"A", "R", "C", "H", "I", "V", "E">>],
    [key |-> "HOLDING",
     value |-> <<"H", "O", "L", "D", "I", "N", "G">>] >>
FolderKeys == {FOLDERS[i].key : i \in 1..Len(FOLDERS)}
\* self.FOLDERS[key]
FolderValue(key) == FOLDERS[CHOOSE i \in 1..Len(FOLDERS) : FOLDERS[i].key = key].value
UNKNOWN_CUSTOMER == <<"U", "N", "K", "N", "O", "W", "N", "_", "C", "U", "S", "T", "O", "M", "E", "R">>

\* datetime.now().strftime("%Y%m%d_%H%M%S") at clock second c of the modelled day
DigitSeq == <<"0", "1", "2", "3", "4", "5", "6", "7", "8", "9">>
Timestamp(c) == <<"2", "0", "2", "6", "1", "1", "0", "2", "_", "0", "0", "0", "0", "0", DigitSeq[c + 1]>>
\* f"{stem}_{timestamp}{suffix}"
Suffixed(nm, c) == stem(nm) \o <<"_">> \o Timestamp(c) \o suffix(nm)


(***************************************************************************)
(* DestinationResolver                                                     *)
(***************************************************************************)
RECURSIVE CustomerFrom(_, _, _)
\* reversed(parts): the first part that is no FOLDERS value, not the name of
\* root_dir and not the file's own name
CustomerFrom(cfg, file_path, k) ==
    LET Tested(part) ==
            IF /\ \A i \in 1..Len(FOLDERS) : FOLDERS[i].value # part
               /\ part # name(cfg.root_dir)
               /\ part # name(file_path)
            THEN part
            ELSE CustomerFrom(cfg, file_path, k - 1)
    IN  IF k = 0 THEN None ELSE Tested(parts(file_path)[k])
extract_customer_from_path(cfg, file_path) ==
    CustomerFrom(cfg, file_path, Len(parts(file_path)))

RECURSIVE MkdirFolders(_, _, _)
\* for folder_key, folder_name in self.FOLDERS.items(): subfolder.mkdir(...)
MkdirFolders(fs, base, k) ==
    LET Made(r) == IF r.raised THEN r ELSE MkdirFolders(r.fs, base, k + 1)
    IN  IF k > Len(FOLDERS) THEN [raised |-> FALSE, fs |-> fs]
        ELSE Made(mkdir(fs, Join(base, FOLDERS[k].value)))

\* [raised, fs, part_path]
create_hierarchical_structure(fs, cfg, customer, part_number, revision) ==
    LET WithSubfolders(part_path, subs) ==
            [raised |-> subs.raised, fs |-> subs.fs, part_path |-> part_path]
        Created(part_path, made) ==
            IF made.raised THEN [raised |-> TRUE, fs |-> made.fs, part_path |-> part_path]
            ELSE WithSubfolders(part_path, MkdirFolders(made.fs, part_path, 1))
        At(part_path) ==
            IF cfg.dry_run THEN [raised |-> FALSE, fs |-> fs, part_path |-> part_path]
            ELSE Created(part_path, mkdir(fs, part_path))
    IN  At(Join(Join(cfg.root_dir, customer),
                IF revision # None
                THEN part_number \o <<"-", "R", "E", "V", "-">> \o revision
                ELSE part_number))

\* [found, raised, fs, part_base_path, customer]; found = FALSE is the None result
get_hierarchical_destination(fs, cfg, file_path, category) ==
    LET Customer(fromPath) ==
            IF cfg.forced_customer # None THEN cfg.forced_customer
            ELSE IF fromPath # None THEN fromPath
            ELSE UNKNOWN_CUSTOMER
        Resolved(customer, made) ==
            [found |-> TRUE, raised |-> made.raised, fs |-> made.fs,
             part_base_path |-> made.part_path, customer |-> customer]
        For(customer, part_number, revision) ==
            Resolved(customer,
                     create_hierarchical_structure(fs, cfg, customer, part_number, revision))
        Of(filename, part_number) ==
            IF part_number = None
            THEN [found |-> FALSE, raised |-> FALSE, fs |-> fs,
                  part_base_path |-> FsRoot, customer |-> None]
            ELSE For(Customer(extract_customer_from_path(cfg, file_path)),
                     part_number, extract_revision(filename))
        Named(filename) == Of(filename, extract_part_number(filename))
    IN  Named(stem(name(file_path)))

(***************************************************************************)
(* Relocator                                                               *)
(***************************************************************************)
NoPath == <<None>>

\* source.parent.relative_to(self.root_dir), when source lies under root_dir
PreservedDir(cfg, source, dest_dir) ==
    IF IsPrefix(cfg.root_dir, parent(source))
    THEN dest_dir \o SubSeq(parent(source), Len(cfg.root_dir) + 1, Len(parent(source)))
    ELSE dest_dir

\* move_file: [ret, raised, fs, dest_path]; raised: an exception leaves move_file
move_file(fs, cfg, clock, source, destination_folder, preserve_structure) ==
    LET \* lines 548-557: the move itself
        Moved(fs1, dest_path, moved) ==
            IF moved.raised
            THEN [ret |-> FALSE, raised |-> FALSE, fs |-> fs1, dest_path |-> dest_path]
            ELSE [ret |-> TRUE, raised |-> FALSE, fs |-> moved.fs, dest_path |-> dest_path]
        Onto(fs1, dest_path) ==
            IF cfg.dry_run
            THEN [ret |-> TRUE, raised |-> FALSE, fs |-> fs1, dest_path |-> dest_path]
            ELSE Moved(fs1, dest_path, shutil_move(fs1, source, dest_path))
        \* lines 538-546: the destination path, suffixed when it exists
        Named(fs1, dest_dir, plain) ==
            Onto(fs1, IF exists(fs1, plain)
                      THEN Append(dest_dir, Suffixed(name(source), clock))
                      ELSE plain)
        \* lines 534-536: the destination directory is made, outside any try
        Made(dest_dir, made) ==
            IF made.raised
            THEN [ret |-> FALSE, raised |-> TRUE, fs |-> made.fs, dest_path |-> NoPath]
            ELSE Named(made.fs, dest_dir, Append(dest_dir, name(source)))
        Into(fs1, dest_dir) ==
            Made(dest_dir, IF cfg.dry_run THEN [raised |-> FALSE, fs |-> fs1]
                           ELSE mkdir(fs1, dest_dir))
        \* lines 511-520: hierarchical mode
        Hierarchical(hier) ==
            IF hier.raised
            THEN [ret |-> FALSE, raised |-> TRUE, fs |-> hier.fs, dest_path |-> NoPath]
            ELSE Into(hier.fs,
                      IF hier.found
                      THEN Join(hier.part_base_path, FolderValue(destination_folder))
                      ELSE Join(cfg.root_dir, FolderValue("HOLDING")))
        \* lines 521-532: flat mode
        Flat(flat_dir) ==
            Into(fs, IF preserve_structure THEN PreservedDir(cfg, source, flat_dir)
                     ELSE flat_dir)
    IN  IF ~exists(fs, source) \/ ~is_file(fs, source)
        THEN [ret |-> FALSE, raised |-> FALSE, fs |-> fs, dest_path |-> NoPath]
        ELSE IF cfg.hierarchical
        THEN Hierarchical(get_hierarchical_destination(fs, cfg, source, destination_folder))
        ELSE Flat(Join(cfg.root_dir, FolderValue(destination_folder)))

\* archive_folder: the filesystem afterwards
archive_folder(fs, cfg, clock, source) ==
    LET Made(archive_dir, made) ==
            IF made.raised THEN made.fs
            ELSE shutil_move(made.fs, source,
                             Append(archive_dir,
                                    name(source) \o <<"_">> \o Timestamp(clock))).fs
        Into(archive_dir) == Made(archive_dir, mkdir(fs, archive_dir))
    IN  IF ~exists(fs, source) \/ ~is_dir(fs, source) THEN fs
        ELSE IF cfg.dry_run THEN fs
        ELSE Into(Join(cfg.root_dir, FolderValue("ARCHIVE")))

RECURSIVE CreateFolders(_, _, _)
CreateFolders(fs, cfg, k) ==
    LET Made(made) == IF made.raised THEN made ELSE CreateFolders(made.fs, cfg, k + 1)
        At(full_path) ==
            IF exists(fs, full_path) \/ cfg.dry_run THEN CreateFolders(fs, cfg, k + 1)
            ELSE Made(mkdir(fs, full_path))
    IN  IF k > Len(FOLDERS) THEN [raised |-> FALSE, fs |-> fs]
        ELSE At(Join(cfg.root_dir, FOLDERS[k].value))
\* create_folder_structure with the dry-run test at line 470 dropped
create_folder_structure_undry(fs, cfg) == CreateFolders(fs, [cfg EXCEPT !.dry_run = FALSE], 1)
\* create_folder_structure: [raised, fs]
create_folder_structure(fs, cfg) == CreateFolders(fs, cfg, 1)


\* rename_file_to_convention: [fs, new_path]; new_path = NoPath is the None result
rename_file_to_convention(fs, cfg, clock, file_path) ==
    LET Renamed(new_path, renamed) ==
            IF renamed.raised THEN [fs |-> fs, new_path |-> NoPath]
            ELSE [fs |-> renamed.fs, new_path |-> new_path]
        Onto(new_path) ==
            IF cfg.dry_run THEN [fs |-> fs, new_path |-> new_path]
            ELSE Renamed(new_path, os_rename_file(fs, file_path, new_path))
        To(suggested) ==
            IF suggested = None THEN [fs |-> fs, new_path |-> NoPath]
            ELSE Onto(IF exists(fs, Append(parent(file_path), suggested))
                      THEN Append(parent(file_path), Suffixed(suggested, clock))
                      ELSE Append(parent(file_path), suggested))
    IN  To(suggest_filename(name(file_path)))

(***************************************************************************)
(* OrganizationEngine                                                      *)
(***************************************************************************)
\* check_and_fix_naming recording a violation only when it does not rename
check_and_fix_naming_unrecorded(fs, cfg, clock, violations, file_path) ==
    LET Fixed(renamed) ==
            IF renamed.new_path # NoPath
            THEN [fs |-> renamed.fs, violations |-> violations,
                  is_compliant |-> TRUE, path |-> renamed.new_path]
            ELSE [fs |-> renamed.fs, violations |-> violations,
                  is_compliant |-> FALSE, path |-> file_path]
        Recorded(recorded) ==
            IF cfg.enforce_naming
            THEN IF cfg.auto_rename
                 THEN Fixed(rename_file_to_convention(fs, cfg, clock, file_path))
                 ELSE [fs |-> fs, violations |-> recorded,
                       is_compliant |-> FALSE, path |-> file_path]
            ELSE [fs |-> fs, violations |-> recorded, is_compliant |-> TRUE, path |-> file_path]
        Checked(v) ==
            IF v.valid
            THEN [fs |-> fs, violations |-> violations, is_compliant |-> TRUE, path |-> file_path]
            ELSE Recorded(Append(violations,
                                 [file |-> name(file_path), error |-> v.error,
                                  suggestion |-> suggest_filename(name(file_path))]))
    IN  Checked(validate_naming_convention(name(file_path)))
\* check_and_fix_naming: [fs, violations, is_compliant, path]
check_and_fix_naming(fs, cfg, clock, violations, file_path) ==
    LET Fixed(recorded, renamed) ==
            IF renamed.new_path # NoPath
            THEN [fs |-> renamed.fs, violations |-> recorded,
                  is_compliant |-> TRUE, path |-> renamed.new_path]
            ELSE [fs |-> renamed.fs, violations |-> recorded,
                  is_compliant |-> FALSE, path |-> file_path]
        Recorded(recorded) ==
            IF cfg.enforce_naming
            THEN IF cfg.auto_rename
                 THEN Fixed(recorded, rename_file_to_convention(fs, cfg, clock, file_path))
                 ELSE [fs |-> fs, violations |-> recorded,
                       is_compliant |-> FALSE, path |-> file_path]
            ELSE [fs |-> fs, violations |-> recorded, is_compliant |-> TRUE, path |-> file_path]
        Checked(v) ==
            IF v.valid
            THEN [fs |-> fs, violations |-> violations, is_compliant |-> TRUE, path |-> file_path]
            ELSE Recorded(Append(violations,
                                 [file |-> name(file_path), error |-> v.error,
                                  suggestion |-> suggest_filename(name(file_path))]))
    IN  Checked(validate_naming_convention(name(file_path)))

\* managed_folders = {self.root_dir / folder for folder in self.FOLDERS.values()}
managed_folders(cfg) == {Join(cfg.root_dir, FOLDERS[i].value) : i \in 1..Len(FOLDERS)}

\* the tests of the scan loop that skip an entry
Skipped(fs, cfg, file_path) ==
    \/ ~is_file(fs, file_path)
    \/ name(file_path)[1] = "."
    \/ name(file_path) = LOG_FILENAME
    \/ \E folder \in managed_folders(cfg) : is_relative_to(file_path, folder)

\* one iteration of the loop of organize_files over a discovered entry:
\* [skipped, raised, fs, violations, categorized, held, decision]
ProcessEntry(fs, cfg, clock, violations, file_path) ==
    LET Done(c, quarantine, category, m) ==
            [skipped |-> FALSE, raised |-> m.raised, fs |-> m.fs, violations |-> c.violations,
             categorized |-> IF m.ret /\ ~quarantine /\ category # NoCategory THEN 1 ELSE 0,
             held |-> IF m.ret /\ (quarantine \/ category = NoCategory) THEN 1 ELSE 0,
             decision |-> [file |-> file_path,
                           valid |-> c.valid,
                           renamed_to |-> IF c.path = file_path THEN None ELSE name(c.path),
                           classified |-> ~quarantine,
                           category |-> IF quarantine THEN NoCategory ELSE category,
                           dest_path |-> m.dest_path,
                           ret |-> m.ret]]
        Classified(c, quarantine, category) ==
            Done(c, quarantine, category,
                 move_file(c.fs, cfg, clock, c.path,
                           IF quarantine \/ category = NoCategory THEN "HOLDING" ELSE category,
                           FALSE))
        Checked(c) ==
            Classified(c, cfg.enforce_naming /\ ~c.is_compliant /\ ~cfg.auto_rename,
                       categorize_file(name(c.path)))
        WithVerdict(c, valid) ==
            Checked([fs |-> c.fs, violations |-> c.violations, is_compliant |-> c.is_compliant,
                     path |-> c.path, valid |-> valid])
    IN  IF Skipped(fs, cfg, file_path)
        THEN [skipped |-> TRUE, raised |-> FALSE, fs |-> fs, violations |-> violations,
              categorized |-> 0, held |-> 0, decision |-> [file |-> file_path]]
        ELSE IF cfg.enforce_naming \/ cfg.auto_rename
        THEN WithVerdict(check_and_fix_naming(fs, cfg, clock, violations, file_path),
                         validate_naming_convention(name(file_path)).valid)
        ELSE Checked([fs |-> fs, violations |-> violations, is_compliant |-> TRUE,
                      path |-> file_path, valid |-> TRUE])

\* the entries scandir lists in directory d
Children(fs, d) == {p \in fs.dirs \cup DOMAIN fs.files : p # FsRoot /\ parent(p) = d}


(***************************************************************************)
(* State                                                                   *)
(***************************************************************************)
VARIABLES
    fs,                 \* the filesystem
    cfg,                \* the engine instance: root_dir, dry_run, hierarchical,
                        \* enforce_naming, auto_rename, forced_customer
    clock,              \* the wall clock, in seconds
    naming_violations,  \* self.naming_violations
    scan,               \* the position of organize_files in its traversal
    last,               \* the operation that ended last, with its arguments and result
    pre,                \* the filesystem before that operation
    ops,                \* the number of operations started
    fname,              \* a file name handed to the naming functions
    call,               \* the latest call of a naming function and its result
    pending_files,      \* ShopStewardWatcher.pending_files: path -> time of the last event
    watcher,            \* the position of start_monitoring and of the event handler
    whist,              \* what the watcher has recorded, taken out and handled so far
    housekeeper,        \* the HousekeeperModule instance of The Hub
    workflow            \* the WorkflowManager instance

engineVars == <<fs, cfg, clock, naming_violations, scan, last, pre, ops>>
nameVars == <<fname, call>>
watchVars == <<pending_files, watcher, whist>>
hubVars == <<housekeeper, workflow>>
vars == <<fs, cfg, clock, naming_violations, scan, last, pre, ops, fname, call,
          pending_files, watcher, whist, housekeeper, workflow>>

(***************************************************************************)
(* Bounds and the inputs drawn                                             *)
(***************************************************************************)
MaxFiles == 3      \* files present at the start
MaxOps == 1        \* operations of one run
MaxClock == 1      \* clock seconds that pass

N_shop == <<"s", "h", "o", "p">>
N_inbox == <<"i", "n", "b", "o", "x">>
N_ACME == <<"A", "C", "M", "E">>
F_norev == <<"A", "B", "-", "1", "2", "_", "x", ".", "s", "t", "p">>
F_valid == <<"A", "B", "-", "1", "2", "_", "R", "E", "V", "-", "A", "_", "x", ".", "s", "t", "p">>
F_unknown == <<"w", ".", "x", "y", "z">>
F_nopart == <<"w", ".", "s", "t", "p">>

RootDir == <<N_shop>>
InboxDir == <<N_inbox>>
CustomerDir == <<N_shop, N_ACME>>
CadDir == Join(RootDir, FolderValue("CAD"))
HoldingDir == Join(RootDir, FolderValue("HOLDING"))

\* where a file may lie at the start, each with its own content; the seventh
\* and the eighth are a regular file at the path of a folder of the layout
Sites == <<
    Append(RootDir, F_norev),
    Append(RootDir, F_valid),
    Append(CustomerDir, F_valid),
    Append(InboxDir, F_valid),
    Append(CadDir, F_valid),
    Append(RootDir, F_unknown),
    CadDir,
    HoldingDir,
    Append(RootDir, F_nopart) >>
LogPath == Append(RootDir, LOG_FILENAME)
\* a path at which nothing exists
MissingPath == Append(InboxDir, F_unknown)
\* the files a direct call may name: any file present but the log
CallSources == (DOMAIN fs.files \ {LogPath}) \cup {MissingPath}
\* the log file's content stands for whatever has been logged so far
LogContent == Len(Sites) + 1

Flags == [dry_run : BOOLEAN, hierarchical : BOOLEAN,
          enforce_naming : BOOLEAN, auto_rename : BOOLEAN]
\* forced_customer is read in hierarchical mode only
EngineConfigs ==
    {[root_dir |-> RootDir, dry_run |-> f.dry_run, hierarchical |-> f.hierarchical,
      enforce_naming |-> f.enforce_naming, auto_rename |-> f.auto_rename,
      forced_customer |-> c] :
        f \in Flags, c \in {None, N_ACME}}
    \ {c \in [root_dir : {RootDir}, dry_run : BOOLEAN, hierarchical : {FALSE},
              enforce_naming : BOOLEAN, auto_rename : BOOLEAN,
              forced_customer : {N_ACME}] : TRUE}

\* the filesystem holding the files of the sites in S: root_dir and its log
\* file exist once the instance is constructed (setup_logging)
InitialFs(S) ==
    [dirs |-> UNION {Prefixes(parent(Sites[i])) : i \in S} \cup Prefixes(RootDir),
     files |-> [p \in {Sites[i] : i \in S} \cup {LogPath} |->
                  IF p = LogPath THEN LogContent
                  ELSE CHOOSE i \in S : Sites[i] = p]]

ScanIdle == [active |-> FALSE]
NoCall == [fn |-> "none"]
NoOp == [kind |-> "none"]

\* the contents (file identities) a filesystem holds
Contents(f) == {f.files[p] : p \in DOMAIN f.files}

InitEngine ==
    /\ cfg \in EngineConfigs
    /\ \E S \in SUBSET (1..Len(Sites)) :
          /\ Cardinality(S) <= MaxFiles
          /\ \A i \in S : Sites[i] \notin InitialFs(S).dirs
          /\ fs = InitialFs(S)
    /\ clock = 0
    /\ naming_violations = <<>>
    /\ scan = ScanIdle
    /\ last = NoOp
    /\ pre = fs
    /\ ops = 0

(***************************************************************************)
(* Operations of the engine                                                *)
(***************************************************************************)
Idle == ~scan.active /\ ops < MaxOps

\* a second passes
Tick ==
    /\ clock < MaxClock
    /\ clock' = clock + 1
    /\ UNCHANGED <<fs, cfg, naming_violations, scan, last, pre, ops, nameVars, hubVars, watchVars>>

CreateFolderStructure ==
    /\ Idle
    /\ LET Returned(r) ==
               /\ fs' = r.fs
               /\ last' = [kind |-> "create_folder_structure", raised |-> r.raised]
       IN  Returned(create_folder_structure(fs, cfg))
    /\ pre' = fs
    /\ ops' = ops + 1
    /\ UNCHANGED <<cfg, clock, naming_violations, scan, nameVars, hubVars, watchVars>>

\* a direct call of move_file
MoveFile(source, key, preserve) ==
    /\ Idle
    /\ is_file(fs, source) \/ source = MissingPath
    /\ LET Returned(r) ==
               /\ fs' = r.fs
               /\ last' = [kind |-> "move_file", source |-> source, key |-> key,
                           ret |-> r.ret, raised |-> r.raised, dest_path |-> r.dest_path]
       IN  Returned(move_file(fs, cfg, clock, source, key, preserve))
    /\ pre' = fs
    /\ ops' = ops + 1
    /\ UNCHANGED <<cfg, clock, naming_violations, scan, nameVars, hubVars, watchVars>>

\* a direct call of rename_file_to_convention
RenameFile(file_path) ==
    /\ Idle
    /\ is_file(fs, file_path)
    /\ LET Returned(r) ==
               /\ fs' = r.fs
               /\ last' = [kind |-> "rename_file_to_convention", source |-> file_path,
                           new_path |-> r.new_path]
       IN  Returned(rename_file_to_convention(fs, cfg, clock, file_path))
    /\ pre' = fs
    /\ ops' = ops + 1
    /\ UNCHANGED <<cfg, clock, naming_violations, scan, nameVars, hubVars, watchVars>>

ArchiveFolder(source) ==
    /\ Idle
    /\ fs' = archive_folder(fs, cfg, clock, source)
    /\ last' = [kind |-> "archive_folder", source |-> source]
    /\ pre' = fs
    /\ ops' = ops + 1
    /\ UNCHANGED <<cfg, clock, naming_violations, scan, nameVars, hubVars, watchVars>>

\* The traversal of rglob('*') is lazy and depth first: the entries of a
\* directory are listed when the traversal enters it, its subdirectories when
\* those entries are exhausted; scandir gives no order.  A step that changes
\* nothing is folded into the next one that does: an entry the loop passes
\* over, and the visit of a directory with nothing but such entries below it.
Live(f, p) == ~Skipped(f, cfg, p)
LiveBelow(f, d) == \E p \in DOMAIN f.files : IsPrefix(d, p) /\ Live(f, p)
Entries(f, d) == {p \in Children(f, d) : is_file(f, p)}
SubDirs(f, d) == {p \in Children(f, d) : is_dir(f, p)}

RECURSIVE DropDone(_, _)
\* the frames of pending directories, without the leading ones left with no
\* directory worth a visit
DropDone(f, stk) ==
    IF stk = <<>> THEN <<>>
    ELSE IF \E d \in Head(stk) : LiveBelow(f, d) THEN stk
    ELSE DropDone(f, Tail(stk))
\* the frames once the subdirectories of the current directory are listed
Frames(f, sc) ==
    LET Pushed(subs) == DropDone(f, IF subs = {} THEN sc.stack ELSE <<subs>> \o sc.stack)
    IN  Pushed(IF sc.recursive THEN SubDirs(f, sc.cur) ELSE {})
Pending(stk) == UNION {stk[i] : i \in 1..Len(stk)}
Without(stk, V) == [i \in 1..Len(stk) |-> stk[i] \ V]

\* organize_files(source_dir, recursive): rglob('*') or glob('*') starts at source_dir
StartScan(source_dir, recursive) ==
    /\ scan' = [active |-> TRUE, source_dir |-> source_dir, recursive |-> recursive,
                cur |-> source_dir, queue |-> Entries(fs, source_dir), stack |-> <<>>,
                files_processed |-> 0, files_categorized |-> 0, files_held |-> 0,
                start_fs |-> fs]
    /\ last' = [kind |-> "organize_start"]
    /\ pre' = fs
    /\ ops' = ops + 1
    /\ UNCHANGED <<fs, cfg, clock, naming_violations, nameVars, hubVars, watchVars>>
OrganizeStart(source_dir, recursive) == Idle /\ StartScan(source_dir, recursive)

\* the loop body on the next entry the generator yields.  A pending directory
\* that had nothing to visit and now receives the file was visited before
\* this entry (V) or is yet to be visited: both orders are scandir orders.
OrganizeEntry ==
    /\ scan.active
    /\ \E file_path \in scan.queue :
          /\ Live(fs, file_path)
          /\ LET Fed(r) == {d \in Pending(scan.stack) : ~LiveBelow(fs, d) /\ LiveBelow(r.fs, d)}
                 Iterated(r) ==
                     /\ fs' = r.fs
                     /\ naming_violations' = r.violations
                     /\ IF r.raised
                        THEN /\ scan' = ScanIdle
                             /\ last' = [kind |-> "organize_raised", file |-> file_path,
                                         decision |-> r.decision]
                        ELSE /\ \E V \in SUBSET Fed(r) :
                                   scan' = [scan EXCEPT
                                      !.queue = @ \ {file_path},
                                      !.stack = Without(@, V),
                                      !.files_processed = @ + 1,
                                      !.files_categorized = @ + r.categorized,
                                      !.files_held = @ + r.held]
                             /\ last' = [kind |-> "organize_entry", decision |-> r.decision,
                                         start_fs |-> scan.start_fs,
                                         categorized |-> r.categorized, held |-> r.held,
                                         recorded |-> SubSeq(r.violations,
                                                             Len(naming_violations) + 1,
                                                             Len(r.violations))]
             IN  Iterated(ProcessEntry(fs, cfg, clock, naming_violations, file_path))
    /\ pre' = fs
    /\ UNCHANGED <<cfg, clock, ops, nameVars, hubVars, watchVars>>

NoLiveEntry == \A p \in scan.queue : ~Live(fs, p)

\* the entries of cur are exhausted: its subdirectories are listed and the
\* traversal enters the next directory
OrganizeDescend ==
    /\ scan.active
    /\ NoLiveEntry
    /\ LET Entered(stk) ==
               /\ stk # <<>>
               /\ \E d \in Head(stk) :
                     /\ LiveBelow(fs, d)
                     /\ scan' = [scan EXCEPT
                           !.cur = d,
                           !.queue = Entries(fs, d),
                           !.stack = IF Head(stk) = {d} THEN Tail(stk)
                                     ELSE <<Head(stk) \ {d}>> \o Tail(stk)]
       IN  Entered(Frames(fs, scan))
    /\ last' = [kind |-> "organize_descend"]
    /\ pre' = fs
    /\ UNCHANGED <<fs, cfg, clock, naming_violations, ops, nameVars, hubVars, watchVars>>

\* the generator is exhausted: the summary is logged
OrganizeEnd ==
    /\ scan.active
    /\ NoLiveEntry
    /\ Frames(fs, scan) = <<>>
    /\ last' = [kind |-> "organize_files", source_dir |-> scan.source_dir,
                recursive |-> scan.recursive, start_fs |-> scan.start_fs,
                files_processed |-> scan.files_processed,
                files_categorized |-> scan.files_categorized,
                files_held |-> scan.files_held]
    /\ scan' = ScanIdle
    /\ pre' = fs
    /\ UNCHANGED <<fs, cfg, clock, naming_violations, ops, nameVars, hubVars, watchVars>>

ScanSources == {RootDir, InboxDir}
MoveKeys == {"CAD", "HOLDING"}
ArchiveSources == {InboxDir, CustomerDir}

Next ==
    \/ Tick
    \/ CreateFolderStructure
    \/ \E s \in CallSources, k \in MoveKeys, p \in BOOLEAN : MoveFile(s, k, p)
    \/ \E s \in CallSources : RenameFile(s)
    \/ \E d \in ArchiveSources : ArchiveFolder(d)
    \/ \E d \in ScanSources, r \in BOOLEAN : OrganizeStart(d, r)
    \/ OrganizeEntry
    \/ OrganizeDescend
    \/ OrganizeEnd

\* no watcher is constructed
NotConstructed == [constructed |-> FALSE]
InitNoHub ==
    /\ housekeeper = NotConstructed
    /\ workflow = NotConstructed
WatcherOff == [pc |-> "off"]
NoHistory == [recorded |-> <<>>]
InitNoWatcher ==
    /\ pending_files = <<>>
    /\ watcher = WatcherOff
    /\ whist = NoHistory

Init ==
    /\ InitEngine
    /\ fname = <<>>
    /\ call = NoCall
    /\ InitNoWatcher
    /\ InitNoHub

Spec == Init /\ [][Next]_vars

(***************************************************************************)
(* Properties of the engine                                                *)
(***************************************************************************)
\* the move_file call of the step that ended last: a direct call, or the call
\* the scan loop made on an entry it did not rename first
LastMove ==
    IF last.kind = "move_file"
    THEN [source |-> last.source, ret |-> last.ret, dest_path |-> last.dest_path]
    ELSE [source |-> last.decision.file, ret |-> last.decision.ret,
          dest_path |-> last.decision.dest_path]
MovedFile ==
    /\ ~cfg.dry_run
    /\ \/ last.kind = "move_file"
       \/ last.kind = "organize_entry" /\ last.decision.renamed_to = None
    /\ LastMove.ret

\* C1: when move_file (dry-run off) has moved a file into a directory that
\* already held a file of the source's name, every file that existed before
\* is unchanged and the incoming file is present under another name.
C1_NoOverwrite ==
    LET src == LastMove.source
        dst == LastMove.dest_path
        plain == Append(parent(dst), name(src))
    IN  (MovedFile /\ is_file(pre, plain)) =>
            /\ \A p \in DOMAIN pre.files \ {src} :
                  is_file(fs, p) /\ fs.files[p] = pre.files[p]
            /\ dst # plain
            /\ is_file(fs, dst)
            /\ fs.files[dst] = pre.files[src]

\* C2: no step of any operation loses a file: every content the filesystem
\* held before the step is still held, at some path, after it.
C2_NoDataLost == Contents(pre) \subseteq Contents(fs)

\* C3: with dry_run on, no step of any operation changes the set of
\* directories, the set of files or the content of a file other than the log.
C3_DryRunFrame ==
    cfg.dry_run =>
        /\ fs.dirs = pre.dirs
        /\ DOMAIN fs.files = DOMAIN pre.files
        /\ \A p \in DOMAIN pre.files \ {LogPath} : fs.files[p] = pre.files[p]
C3_Witness ==
    /\ cfg.dry_run
    /\ cfg.hierarchical
    /\ last.kind = "organize_files"
    /\ last.files_processed >= 2
    /\ last.files_categorized >= 1

\* C4: the real run decides on every entry what the dry run decides on it
\* from the filesystem the scan started with: the same naming verdict, rename
\* target, category, destination path and outcome.
C4_DrySameDecisions ==
    (last.kind = "organize_entry" /\ ~cfg.dry_run) =>
        last.decision = ProcessEntry(last.start_fs, [cfg EXCEPT !.dry_run = TRUE], clock,
                                     <<>>, last.decision.file).decision

\* C11: after create_folder_structure (dry-run off) a second call changes
\* nothing, every folder of the layout is a directory under root_dir, and
\* every directory and file that existed before is still there, unaltered.
C11_CreateIdempotent ==
    (last.kind = "create_folder_structure" /\ ~cfg.dry_run) =>
        /\ create_folder_structure(fs, cfg).fs = fs
        /\ \A k \in 1..Len(FOLDERS) : is_dir(fs, Join(cfg.root_dir, FOLDERS[k].value))
        /\ pre.dirs \subseteq fs.dirs
        /\ DOMAIN fs.files = DOMAIN pre.files
        /\ \A p \in DOMAIN pre.files \ {LogPath} : fs.files[p] = pre.files[p]

\* C12: no call of move_file lets an exception reach its caller and no scan
\* is ended by one; a call that returns False leaves the filesystem as it was.
C12_FailuresReturned ==
    /\ last.kind = "move_file" =>
          /\ ~last.raised
          /\ ~last.ret => fs = pre
    /\ last.kind # "organize_raised"

\* the files a scan is to process: those of the filesystem it starts with
\* that lie in its scope and that the loop does not skip
Eligible(f, source_dir, recursive) ==
    {p \in DOMAIN f.files :
        /\ ~Skipped(f, cfg, p)
        /\ IF recursive THEN IsPrefix(source_dir, parent(p)) ELSE parent(p) = source_dir}
InvalidName(p) == ~validate_naming_convention(name(p)).valid
ScanEnded == last.kind = "organize_files"

\* C13: with enforce_naming on and auto_rename off, the loop sends an entry
\* whose name fails validation to a HOLDING folder without classifying it,
\* counts it as held once and records a violation for it, with the
\* diagnostic and the suggested name; a scan that has ended has recorded
\* exactly one violation for every eligible file with such a name.
C13_InvalidHeld ==
    /\ (/\ last.kind = "organize_entry"
         /\ cfg.enforce_naming
         /\ ~cfg.auto_rename
         /\ InvalidName(last.decision.file)) =>
            /\ ~last.decision.classified
            /\ last.decision.ret
            /\ name(parent(last.decision.dest_path)) = FolderValue("HOLDING")
            /\ last.held = 1
            /\ last.categorized = 0
            /\ last.recorded =
                  <<[file |-> name(last.decision.file),
                     error |-> validate_naming_convention(name(last.decision.file)).error,
                     suggestion |-> suggest_filename(name(last.decision.file))]>>
    /\ (ScanEnded /\ cfg.enforce_naming /\ ~cfg.auto_rename) =>
            Len(naming_violations) =
                Cardinality({p \in Eligible(last.start_fs, last.source_dir, last.recursive) :
                                InvalidName(p)})

\* the call of move_file in the step that ended last: a direct call or the
\* call of the scan loop, on the entry or on the file it was renamed to
MoveStep == last.kind \in {"move_file", "organize_entry", "organize_raised"}
MoveSource ==
    IF last.kind = "move_file" THEN last.source
    ELSE IF last.decision.renamed_to = None THEN last.decision.file
    ELSE Append(parent(last.decision.file), last.decision.renamed_to)
MoveRaised == IF last.kind = "move_file" THEN last.raised ELSE last.kind = "organize_raised"
MoveRet == IF last.kind = "move_file" THEN last.ret ELSE last.decision.ret
MoveDest == IF last.kind = "move_file" THEN last.dest_path ELSE last.decision.dest_path
NoPartNumber(p) == extract_part_number(stem(name(p))) = None

\* C14: in hierarchical mode move_file, called on an existing file whose stem
\* yields no part number, raises nothing, returns True and names a destination
\* in root_dir / HOLDING; with dry-run off the file lies there afterwards.
C14_HoldingFallback ==
    (/\ MoveStep
     /\ cfg.hierarchical
     /\ is_file(pre, MoveSource)
     /\ NoPartNumber(MoveSource)) =>
        /\ ~MoveRaised
        /\ MoveRet
        /\ parent(MoveDest) = Join(cfg.root_dir, FolderValue("HOLDING"))
        /\ ~cfg.dry_run =>
              /\ is_file(fs, MoveDest)
              /\ fs.files[MoveDest] = pre.files[MoveSource]

\* C15: in flat mode with enforce_naming off the loop moves every entry into
\* root_dir / FOLDERS[category] when its extension belongs to a category and
\* into root_dir / HOLDING when it does not, under its own name unless that
\* name is taken there, and adds one to categorized or to held accordingly.
C15_FlatRouting ==
    LET Routed(file, category, dest) ==
            /\ last.kind = "organize_entry"
            /\ last.decision.ret
            /\ parent(dest) = Join(cfg.root_dir,
                                   FolderValue(IF category = NoCategory THEN "HOLDING"
                                               ELSE category))
            /\ last.categorized = (IF category = NoCategory THEN 0 ELSE 1)
            /\ last.held = (IF category = NoCategory THEN 1 ELSE 0)
            /\ \/ name(dest) = name(file)
               \/ /\ exists(pre, Append(parent(dest), name(file)))
                  /\ \E c \in 0..MaxClock : name(dest) = Suffixed(name(file), c)
            /\ ~cfg.dry_run =>
                  /\ is_file(fs, dest)
                  /\ fs.files[dest] = pre.files[file]
    IN  (/\ last.kind \in {"organize_entry", "organize_raised"}
         /\ ~cfg.hierarchical
         /\ ~cfg.enforce_naming) =>
            Routed(last.decision.file, categorize_file(name(last.decision.file)),
                   last.decision.dest_path)

\* the folder key move_file was called with
MoveKey ==
    IF last.kind = "move_file" THEN last.key
    ELSE IF ~last.decision.classified \/ last.decision.category = NoCategory THEN "HOLDING"
    ELSE last.decision.category
\* the directories that enclose a file inside root_dir, managed folders left out
CustomerDirs(file) ==
    {d \in Prefixes(parent(file)) :
        /\ IsPrefix(cfg.root_dir, d)
        /\ d # cfg.root_dir
        /\ d \notin managed_folders(cfg)}
\* the customer of a file: the override, else the nearest such directory,
\* else UNKNOWN_CUSTOMER
CustomerOf(file) ==
    IF cfg.forced_customer # None THEN cfg.forced_customer
    ELSE IF CustomerDirs(file) = {} THEN UNKNOWN_CUSTOMER
    ELSE name(CHOOSE d \in CustomerDirs(file) :
                 \A e \in CustomerDirs(file) : Len(e) <= Len(d))
PartFolderOf(filename) ==
    IF extract_revision(filename) = None THEN extract_part_number(filename)
    ELSE extract_part_number(filename) \o <<"-", "R", "E", "V", "-">> \o extract_revision(filename)

\* C19: in hierarchical mode the destination move_file names for a file with
\* a recoverable part number lies in
\* root_dir / customer / part folder / FOLDERS[key].
C19_HierarchicalDestination ==
    (/\ MoveStep
     /\ cfg.hierarchical
     /\ MoveDest # NoPath
     /\ ~NoPartNumber(MoveSource)) =>
        parent(MoveDest) =
            Join(Append(Append(cfg.root_dir, CustomerOf(MoveSource)),
                        PartFolderOf(stem(name(MoveSource)))),
                 FolderValue(MoveKey))

\* an eligible entry the loop is to rename: its name fails validation and a
\* name can be suggested for it
Renamable(p) == InvalidName(p) /\ suggest_filename(name(p)) # None
\* the name rename_file_to_convention is to give file p in filesystem f
NewName(f, p) ==
    IF exists(f, Append(parent(p), suggest_filename(name(p))))
    THEN Suffixed(suggest_filename(name(p)), clock)
    ELSE suggest_filename(name(p))

\* C20: with enforce_naming and auto_rename on (dry-run off) the loop renames
\* an entry whose name fails validation and has a suggestion to the suggested
\* name, suffixed with the timestamp if that name is taken, classifies the
\* renamed file and moves it, under the new name, to the folder of its
\* category (HOLDING if it has none), counting it once; a scan over files
\* that are all of this kind has processed each of them once when it ends.
C20_RenameThenRoute ==
    /\ (/\ last.kind \in {"organize_entry", "organize_raised"}
         /\ cfg.enforce_naming
         /\ cfg.auto_rename
         /\ ~cfg.dry_run
         /\ Renamable(last.decision.file)) =>
            /\ last.kind = "organize_entry"
            /\ last.decision.renamed_to = NewName(pre, last.decision.file)
            /\ last.decision.classified
            /\ last.decision.category = categorize_file(last.decision.renamed_to)
            /\ last.decision.ret
            /\ name(parent(last.decision.dest_path)) = FolderValue(MoveKey)
            /\ name(last.decision.dest_path) = last.decision.renamed_to
            /\ is_file(fs, last.decision.dest_path)
            /\ ~exists(fs, last.decision.file)
            /\ last.categorized + last.held = 1
    /\ (/\ ScanEnded
         /\ cfg.enforce_naming
         /\ cfg.auto_rename
         /\ ~cfg.dry_run
         /\ \A p \in Eligible(last.start_fs, last.source_dir, last.recursive) : Renamable(p)) =>
            /\ last.files_processed =
                   Cardinality(Eligible(last.start_fs, last.source_dir, last.recursive))
            /\ last.files_categorized + last.files_held = last.files_processed

\* C21: every entry the loop of a scan processes is a file the scan set out
\* with (no file is processed again after the scan has moved or renamed
\* it); the entry ends quarantined in a HOLDING folder or relocated to the
\* folder of its category, or its move failed and the file is where it was;
\* no entry ends the scan, and a scan that has ended has processed no more
\* entries than it had eligible files.
C21_OncePerScan ==
    /\ last.kind # "organize_raised"
    /\ last.kind = "organize_entry" =>
          /\ last.decision.file \in Eligible(last.start_fs, scan.source_dir, scan.recursive)
          /\ IF last.decision.ret
             THEN cfg.dry_run \/ is_file(fs, last.decision.dest_path)
             ELSE /\ last.categorized + last.held = 0
                  /\ cfg.dry_run \/ is_file(fs, MoveSource)
    /\ ScanEnded =>
          last.files_processed <=
              Cardinality(Eligible(last.start_fs, last.source_dir, last.recursive))

\* the violation check_and_fix_naming is to record for a file: none for a
\* valid name
ViolationOf(file) ==
    IF InvalidName(file)
    THEN <<[file |-> name(file),
            error |-> validate_naming_convention(name(file)).error,
            suggestion |-> suggest_filename(name(file))]>>
    ELSE <<>>
\* the step is an iteration of the loop of the scan
EntryStep == last' # last /\ last'.kind \in {"organize_entry", "organize_raised"}

C25_InvalidNeverCategorized ==
    (/\ last.kind = "organize_entry"
     /\ cfg.enforce_naming
     /\ ~cfg.dry_run
     /\ last.decision.ret
     /\ InvalidName(last.decision.dest_path)) =>
        MoveKey = "HOLDING"

\* C27: the destination move_file names lies inside root_dir, and so does
\* every directory a step that calls move_file creates.
C27_InsideRoot ==
    MoveStep =>
        /\ MoveDest # NoPath => IsPrefix(cfg.root_dir, parent(MoveDest))
        /\ \A d \in fs.dirs \ pre.dirs : IsPrefix(cfg.root_dir, d)

\* the entry of the last iteration was moved into a HOLDING folder
PlacedInHolding ==
    last.decision.ret /\ name(parent(last.decision.dest_path)) = FolderValue("HOLDING")

\* C28: with dry-run off an iteration counts its entry as held exactly when
\* it placed it in a HOLDING folder and as categorized exactly when it placed
\* it in another folder of the layout; a scan that has ended has processed as
\* many entries as it had eligible files, and categorized + held is at most
\* that number.
C28_CountersMeanIt ==
    /\ (last.kind = "organize_entry" /\ ~cfg.dry_run) =>
          /\ last.held = (IF PlacedInHolding THEN 1 ELSE 0)
          /\ last.categorized = (IF last.decision.ret /\ ~PlacedInHolding THEN 1 ELSE 0)
    /\ (ScanEnded /\ ~cfg.dry_run) =>
          /\ last.files_processed =
                Cardinality(Eligible(last.start_fs, last.source_dir, last.recursive))
          /\ last.files_categorized + last.files_held <= last.files_processed

(***************************************************************************)
(* The naming functions on their own: file names put together from a part  *)
(* number, a revision token, a description and an extension, and every     *)
(* listed extension in every letter case                                   *)
(***************************************************************************)
PartTokens == {<<>>, <<"A", "B", "-", "1", "2">>, <<"a", "b", "-", "1", "2">>, <<"A", "B", "1", "2", "3">>, <<"1", "2", "3", "4", "-", "5", "6">>, <<"A", "1", "2", "3", "4">>, <<"q">>}
RevisionTokens == {<<>>, <<"R", "E", "V", "-", "A">>, <<"r", "e", "v", "_", "b">>, <<"R", "1">>, <<"V", "2">>, <<"R", "E", "V", "C">>, <<"A">>}
DescriptionTokens == {<<>>, <<"x">>, <<"h", "o", " ", "u", "s">>}
ExtensionTokens == {<<>>, <<".", "s", "t", "p">>, <<".", "S", "T", "P">>, <<".", "N", "c">>, <<".", "x", "y", "z">>, <<".", "s", "t", "~">>}
TokenSeparators == {<<"_">>, <<"-">>}

\* the tokens that are not empty, joined by the separator
RECURSIVE Joined(_, _)
Joined(tokens, sep) ==
    IF tokens = <<>> THEN <<>>
    ELSE IF Head(tokens) = <<>> THEN Joined(Tail(tokens), sep)
    ELSE LET rest == Joined(Tail(tokens), sep)
         IN  IF rest = <<>> THEN Head(tokens) ELSE Head(tokens) \o sep \o rest

StructuredNames ==
    {Joined(<<p, r, d>>, s) \o e :
        p \in PartTokens, r \in RevisionTokens, d \in DescriptionTokens,
        s \in TokenSeparators, e \in ExtensionTokens} \ {<<>>}

RECURSIVE CaseVariants(_)
CaseVariants(s) ==
    IF s = <<>> THEN {<<>>}
    ELSE {<<c>> \o r : c \in BothCases(Head(s)), r \in CaseVariants(Tail(s))}
ListedExtensions ==
    UNION {{FILE_CATEGORIES[k].exts[i] : i \in 1..Len(FILE_CATEGORIES[k].exts)} :
              k \in 1..Len(FILE_CATEGORIES)}
ExtensionNames == UNION {{<<"a">> \o v : v \in CaseVariants(e)} : e \in ListedExtensions}

NameInputs == StructuredNames \cup ExtensionNames

DefaultConfig == [root_dir |-> RootDir, dry_run |-> FALSE, hierarchical |-> FALSE,
                  enforce_naming |-> FALSE, auto_rename |-> FALSE, forced_customer |-> None]
\* an engine instance on which no operation is called
InitEngineIdle ==
    /\ cfg = DefaultConfig
    /\ fs = InitialFs({})
    /\ clock = 0
    /\ naming_violations = <<>>
    /\ scan = ScanIdle
    /\ last = NoOp
    /\ pre = fs
    /\ ops = 0

InitNames ==
    /\ InitEngineIdle
    /\ InitNoWatcher
    /\ InitNoHub
    /\ fname \in NameInputs
    /\ call = NoCall

\* one call of a naming function on the input
ExtractPartNumber ==
    /\ call = NoCall
    /\ call' = [fn |-> "extract_part_number", arg |-> fname,
                result |-> extract_part_number(fname)]
    /\ UNCHANGED <<fname, engineVars, watchVars, hubVars>>
ExtractRevision ==
    /\ call = NoCall
    /\ call' = [fn |-> "extract_revision", arg |-> fname,
                result |-> extract_revision(fname)]
    /\ UNCHANGED <<fname, engineVars, watchVars, hubVars>>
Categorize ==
    /\ call = NoCall
    /\ call' = [fn |-> "categorize_file", arg |-> fname, result |-> categorize_file(fname)]
    /\ UNCHANGED <<fname, engineVars, watchVars, hubVars>>
Suggest ==
    /\ call = NoCall
    /\ call' = [fn |-> "suggest_filename", arg |-> fname, result |-> suggest_filename(fname)]
    /\ UNCHANGED <<fname, engineVars, watchVars, hubVars>>
\* the name validated is the input, or the suggestion just made for it
Validate ==
    /\ \/ call = NoCall
       \/ call.fn = "suggest_filename" /\ call.result # None
    /\ LET arg == IF call = NoCall THEN fname ELSE call.result
       IN  call' = [fn |-> "validate_naming_convention", arg |-> arg,
                    result |-> validate_naming_convention(arg)]
    /\ UNCHANGED <<fname, engineVars, watchVars, hubVars>>

NextNames ==
    \/ ExtractPartNumber
    \/ ExtractRevision
    \/ Categorize
    \/ Suggest
    \/ Validate

SpecNames == InitNames /\ [][NextNames]_vars

(***************************************************************************)
(* Properties of the naming functions                                      *)
(***************************************************************************)
ExtensionsOf(k) == {FILE_CATEGORIES[k].exts[i] : i \in 1..Len(FILE_CATEGORIES[k].exts)}

\* C8: categorize_file returns the category of every rule set that lists the
\* file's extension, compared without regard to letter case (so the sets
\* name one category per extension), and nothing when no set lists it.
C8_Categorize ==
    call.fn = "categorize_file" =>
        LET extension == lower(suffix(call.arg))
        IN  /\ \A k \in 1..Len(FILE_CATEGORIES) :
                  extension \in ExtensionsOf(k) => call.result = FILE_CATEGORIES[k].key
            /\ (\A k \in 1..Len(FILE_CATEGORIES) : extension \notin ExtensionsOf(k))
                  => call.result = NoCategory
C8_Witness ==
    /\ call.fn = "categorize_file"
    /\ call.result = "NC_UNPROVEN"
    /\ suffix(call.arg) # lower(suffix(call.arg))

AllIn(s, cls) == \A i \in 1..Len(s) : s[i] \in cls
\* REV-X, Rn or Vn, in either letter case
IsRevisionToken(t) ==
    \/ /\ Len(t) >= 5
       /\ upper(SubSeq(t, 1, 4)) = REV_PREFIX
       /\ AllIn(SubSeq(t, 5, Len(t)), AlnumSet)
    \/ /\ Len(t) >= 2
       /\ upper(<<t[1]>>) \in {<<"R">>, <<"V">>}
       /\ AllIn(SubSeq(t, 2, Len(t)), DigitSet)
\* PARTNUMBER_REV-X_description.ext: the name splits at two underscores and a
\* dot into a part number, a revision token, a description and an extension
MatchesTemplate(f) ==
    \E i, j, k \in 1..Len(f) :
        /\ 1 < i /\ i < j /\ j + 1 < k /\ k < Len(f)
        /\ f[i] = "_" /\ f[j] = "_" /\ f[k] = "."
        /\ AllIn(SubSeq(f, 1, i - 1), AlnumSet \cup {"-"})
        /\ IsRevisionToken(SubSeq(f, i + 1, j - 1))
        /\ AllIn(SubSeq(f, k + 1, Len(f)), AlnumSet)

\* C9: validate_naming_convention returns (true, no reason) for a name that
\* matches the template and (false, diagnostic) for any other, the diagnostic
\* telling which of part number and revision the extractors recover.
C9_Validate ==
    LET Diagnostic(part, rev) ==
            IF ~part /\ ~rev THEN MSG_BOTH
            ELSE IF part /\ ~rev THEN MSG_REV
            ELSE IF ~part /\ rev THEN MSG_PART
            ELSE MSG_FORMAT
    IN  call.fn = "validate_naming_convention" =>
            IF MatchesTemplate(call.arg)
            THEN call.result = [valid |-> TRUE, error |-> NoError]
            ELSE /\ ~call.result.valid
                 /\ call.result.error \notin {NoError, ""}
                 /\ call.result.error = Diagnostic(extract_part_number(call.arg) # None,
                                                   extract_revision(call.arg) # None)
C9_Witness ==
    /\ call.fn = "validate_naming_convention"
    /\ call.arg = fname
    /\ call.result.error = MSG_PART

\* C10: a name suggested for an input with a recoverable part number passes
\* validate_naming_convention.
C10_RoundTrip ==
    (call.fn = "suggest_filename" /\ call.result # None) =>
        validate_naming_convention(call.result).valid

\* The words of the extraction patterns, each told from its wording (letter
\* case ignored), and the groups a pattern captures somewhere in a text.
Spans(s) == {<<i, j>> \in (1..Len(s)) \X (1..Len(s)) : i <= j}
\* text-dash-text, each side made of at least lo characters of cls
Dashed(w, cls, lo1, lo2) ==
    \E d \in 1..Len(w) :
        /\ w[d] = "-"
        /\ d - 1 >= lo1
        /\ Len(w) - d >= lo2
        /\ AllIn(SubSeq(w, 1, d - 1), cls)
        /\ AllIn(SubSeq(w, d + 1, Len(w)), cls)
PartWord(k, w) ==
    CASE k = 1 -> Dashed(w, AlnumSet, 2, 2)
      [] k = 2 -> \E d \in 2..Len(w) :
                      /\ Len(w) - d >= 3
                      /\ AllIn(SubSeq(w, 1, d), LetterSet)
                      /\ AllIn(SubSeq(w, d + 1, Len(w)), DigitSet)
      [] k = 3 -> Dashed(w, DigitSet, 4, 2)
      [] k = 4 -> /\ Len(w) >= 5
                  /\ w[1] \in LetterSet
                  /\ AllIn(SubSeq(w, 2, Len(w)), DigitSet)
PartGroups(k, s) == {SubSeq(s, sp[1], sp[2]) : sp \in {x \in Spans(s) : PartWord(k, SubSeq(s, x[1], x[2]))}}
\* the group s[i..j] of revision pattern k: what must stand before and after it
RevisionGroup(k, s, i, j) ==
    CASE k = 1 -> /\ AllIn(SubSeq(s, i, j), AlnumSet)
                  /\ \/ i > 3 /\ lower(SubSeq(s, i - 3, i - 1)) = <<"r", "e", "v">>
                     \/ /\ i > 4
                        /\ s[i - 1] \in {"-", "_"}
                        /\ lower(SubSeq(s, i - 4, i - 2)) = <<"r", "e", "v">>
      [] k = 2 -> AllIn(SubSeq(s, i, j), DigitSet) /\ i > 1 /\ s[i - 1] \in {"R", "r"}
      [] k = 3 -> AllIn(SubSeq(s, i, j), DigitSet) /\ i > 1 /\ s[i - 1] \in {"V", "v"}
      [] k = 4 -> /\ i = j
                  /\ s[i] \in LetterSet
                  /\ i > 1
                  /\ s[i - 1] \in {"-", "_"}
                  /\ j = Len(s) \/ s[j + 1] \in {"-", "_", "."}
RevisionGroups(k, s) == {SubSeq(s, sp[1], sp[2]) : sp \in {x \in Spans(s) : RevisionGroup(k, s, x[1], x[2])}}
PatternGroups(fn, k, s) ==
    IF fn = "extract_part_number" THEN PartGroups(k, s) ELSE RevisionGroups(k, s)
Extractors == {"extract_part_number", "extract_revision"}
PatternCount == Len(PART_NUMBER_PATTERNS)

\* C17: an extractor returns nothing when no pattern of its list has a match
\* in the filename; otherwise it returns, upper-cased, a group captured by
\* the first pattern in declared order that has one.
C17_FirstPattern ==
    LET First(fn, s, matching) ==
            IF matching = {} THEN call.result = None
            ELSE call.result \in {upper(g) : g \in PatternGroups(fn, SetMin(matching), s)}
    IN  call.fn \in Extractors =>
            First(call.fn, call.arg,
                  {k \in 1..PatternCount : PatternGroups(call.fn, k, call.arg) # {}})
\* the first pattern has a match and the fourth one captures another text
C17_Witness ==
    /\ call.fn = "extract_part_number"
    /\ PartGroups(1, call.arg) # {}
    /\ \E g \in PartGroups(4, call.arg) : upper(g) # call.result

(***************************************************************************)
(* ShopStewardWatcher.  The observer thread runs on_created and            *)
(* on_modified, one event at a time; the main thread runs the loop of      *)
(* start_monitoring.  Nothing orders the two threads' accesses to          *)
(* pending_files: a step below is a stretch of one thread that the other   *)
(* may precede or follow.  pending_files is a dict: the sequence of its    *)
(* <<path, timestamp>> items in insertion order.                           *)
(***************************************************************************)
debounce_seconds == 2
SLEEP_SECONDS == 1
MaxTime == 2       \* clock seconds that pass while the watcher runs

Has(pf, p) == \E i \in 1..Len(pf) : pf[i][1] = p
Get(pf, p) == pf[CHOOSE i \in 1..Len(pf) : pf[i][1] = p][2]
\* pf[p] = t
Put(pf, p, t) ==
    IF Has(pf, p) THEN [i \in 1..Len(pf) |-> IF pf[i][1] = p THEN <<p, t>> ELSE pf[i]]
    ELSE Append(pf, <<p, t>>)
\* del pf[p]
RECURSIVE Del(_, _)
Del(pf, p) ==
    IF pf = <<>> THEN <<>>
    ELSE IF Head(pf)[1] = p THEN Del(Tail(pf), p)
    ELSE <<Head(pf)>> \o Del(Tail(pf), p)

watch_dir == InboxDir
\* a second path of the watched directory, of no category: a file may lie there
UnlistedPath == Append(watch_dir, F_unknown)
\* the paths events name: two paths of the watched directory and the log
\* file's name
EventPaths == {Append(watch_dir, F_valid), UnlistedPath, Append(watch_dir, LOG_FILENAME)}

WatcherConfigs ==
    {c \in EngineConfigs : ~c.enforce_naming /\ ~c.auto_rename /\ c.forced_customer = None}
\* the sites of the files present when the watcher is started
WatcherSites == {{}, {4}, {4, 5}, {4, 7}}
\* the filesystem the watcher is started on: the second file of the watched
\* directory is there (stray) or not
WatcherFs(S, stray) ==
    IF stray
    THEN [dirs |-> InitialFs(S).dirs \cup Prefixes(watch_dir),
          files |-> [p \in DOMAIN InitialFs(S).files \cup {UnlistedPath} |->
                       IF p = UnlistedPath THEN 0 ELSE InitialFs(S).files[p]]]
    ELSE InitialFs(S)

InitWatcher ==
    /\ cfg \in WatcherConfigs
    /\ \E S \in WatcherSites, stray \in BOOLEAN : fs = WatcherFs(S, stray)
    /\ clock = 0
    /\ naming_violations = <<>>
    /\ scan = ScanIdle
    /\ last = NoOp
    /\ pre = fs
    /\ ops = 0
    /\ fname = <<>>
    /\ call = NoCall
    /\ InitNoHub
    /\ pending_files = <<>>
    /\ watcher = [pc |-> "constructed", observing |-> FALSE, handler |-> [pc |-> "idle"],
                  slept_at |-> 0, current_time |-> 0, items |-> <<>>,
                  files_to_process |-> <<>>]
    \* event[p]: the time of the last event observed for p, -1 when there is none
    /\ whist = [event |-> [p \in EventPaths |-> -1],
                taken |-> [p \in EventPaths |-> 0],
                last_taken |-> [path |-> None],
                handled |-> {}]

\* a second passes
WatcherTick ==
    /\ clock < MaxTime
    /\ clock' = clock + 1
    /\ UNCHANGED <<fs, cfg, naming_violations, scan, last, pre, ops, nameVars, hubVars, watchVars>>

\* start_monitoring up to the first sleep
StartMonitoring ==
    /\ watcher.pc = "constructed"
    /\ IF ~exists(fs, watch_dir)
       THEN watcher' = [watcher EXCEPT !.pc = "returned"]
       ELSE watcher' = [watcher EXCEPT !.pc = "sleep", !.observing = TRUE, !.slept_at = clock]
    /\ UNCHANGED <<engineVars, nameVars, hubVars, pending_files, whist>>

\* on_created(event)
OnCreated(p, is_directory) ==
    /\ watcher.observing
    /\ watcher.handler.pc = "idle"
    /\ IF is_directory \/ name(p)[1] = "." \/ name(p) = LOG_FILENAME
       THEN UNCHANGED <<pending_files, whist>>
       ELSE /\ pending_files' = Put(pending_files, p, clock)
            /\ whist' = [whist EXCEPT !.event[p] = clock]
    /\ UNCHANGED <<engineVars, nameVars, hubVars, watcher>>

\* on_modified(event) up to the test `file_path in self.pending_files`
OnModified(p, is_directory) ==
    /\ watcher.observing
    /\ watcher.handler.pc = "idle"
    /\ IF is_directory \/ ~Has(pending_files, p)
       THEN UNCHANGED <<watcher, whist>>
       ELSE /\ watcher' = [watcher EXCEPT !.handler = [pc |-> "store", path |-> p]]
            /\ whist' = [whist EXCEPT !.event[p] = clock]
    /\ UNCHANGED <<engineVars, nameVars, hubVars, pending_files>>

\* on_modified: self.pending_files[file_path] = time.time()
OnModifiedStore ==
    /\ watcher.handler.pc = "store"
    /\ pending_files' = Put(pending_files, watcher.handler.path, clock)
    /\ watcher' = [watcher EXCEPT !.handler = [pc |-> "idle"]]
    /\ UNCHANGED <<engineVars, nameVars, hubVars, whist>>

\* time.sleep(1) is over; process_pending_files reads the time and copies the items
Poll ==
    /\ watcher.pc = "sleep"
    /\ clock >= watcher.slept_at + SLEEP_SECONDS
    /\ watcher' = [watcher EXCEPT !.pc = "first_loop", !.current_time = clock,
                                  !.items = pending_files, !.files_to_process = <<>>]
    /\ UNCHANGED <<engineVars, nameVars, hubVars, pending_files, whist>>

\* one iteration of the first loop of process_pending_files, on a copied item
FirstLoop ==
    /\ watcher.pc = "first_loop"
    /\ IF watcher.items = <<>>
       THEN /\ watcher' = [watcher EXCEPT !.pc = "second_loop"]
            /\ UNCHANGED <<pending_files, whist>>
       ELSE LET file_path == Head(watcher.items)[1]
                timestamp == Head(watcher.items)[2]
            IN  IF watcher.current_time - timestamp >= debounce_seconds
                THEN /\ watcher' = [watcher EXCEPT
                           !.items = Tail(@),
                           !.files_to_process = Append(@, file_path)]
                     /\ pending_files' = Del(pending_files, file_path)
                     /\ whist' = [whist EXCEPT
                           !.taken[file_path] = @ + 1,
                           !.last_taken = [path |-> file_path, basis |-> timestamp,
                                           stored |-> Get(pending_files, file_path),
                                           at |-> clock,
                                           event |-> whist.event[file_path]]]
                ELSE /\ watcher' = [watcher EXCEPT !.items = Tail(@)]
                     /\ UNCHANGED <<pending_files, whist>>
    /\ UNCHANGED <<engineVars, nameVars, hubVars>>

\* the body of the second loop of process_pending_files for a file that
\* exists: categorize_file, then move_file to the category or to HOLDING
process_pending_file(f, c, clk, file_path) ==
    LET Categorized(category) ==
            move_file(f, c, clk, file_path,
                      IF category # NoCategory THEN category ELSE "HOLDING", FALSE)
    IN  Categorized(categorize_file(name(file_path)))

\* one iteration of the second loop; when none is left the loop of
\* start_monitoring sleeps again.  An exception of move_file is caught by
\* nothing: it ends start_monitoring.
SecondLoop ==
    /\ watcher.pc = "second_loop"
    /\ IF watcher.files_to_process = <<>>
       THEN /\ watcher' = [watcher EXCEPT !.pc = "sleep", !.slept_at = clock]
            /\ UNCHANGED <<fs, last, pre, whist>>
       ELSE LET Moved(file_path, r) ==
                    /\ fs' = r.fs
                    /\ pre' = fs
                    /\ last' = [kind |-> "watcher_dispatch", source |-> file_path,
                                ret |-> r.ret, raised |-> r.raised, dest_path |-> r.dest_path]
                    /\ watcher' = [watcher EXCEPT
                          !.files_to_process = Tail(@),
                          !.pc = IF r.raised THEN "raised" ELSE @]
                Process(file_path) ==
                    /\ IF exists(fs, file_path) /\ is_file(fs, file_path)
                       THEN Moved(file_path, process_pending_file(fs, cfg, clock, file_path))
                       ELSE /\ watcher' = [watcher EXCEPT !.files_to_process = Tail(@)]
                            /\ UNCHANGED <<fs, last, pre>>
                    /\ whist' = [whist EXCEPT !.handled = @ \cup {file_path}]
            IN  Process(Head(watcher.files_to_process))
    /\ UNCHANGED <<cfg, clock, naming_violations, scan, ops, nameVars, hubVars, pending_files>>

\* KeyboardInterrupt reaches the main thread inside the try block, wherever
\* it is; the handler stops the observer
Interrupt ==
    /\ watcher.pc \in {"sleep", "first_loop", "second_loop"}
    /\ watcher' = [watcher EXCEPT !.pc = "stopped", !.observing = FALSE,
                                  !.handler = [pc |-> "idle"]]
    /\ UNCHANGED <<engineVars, nameVars, hubVars, pending_files, whist>>

NextWatcher ==
    \/ WatcherTick
    \/ StartMonitoring
    \/ \E p \in EventPaths, d \in BOOLEAN : OnCreated(p, d)
    \/ \E p \in EventPaths, d \in BOOLEAN : OnModified(p, d)
    \/ OnModifiedStore
    \/ Poll
    \/ FirstLoop
    \/ SecondLoop
    \/ Interrupt

SpecWatcher == InitWatcher /\ [][NextWatcher]_vars

(***************************************************************************)
(* Properties of the watcher                                               *)
(***************************************************************************)
Taken == whist.last_taken.path # None

\* C5: a path is taken out for dispatch only when debounce_seconds have
\* passed since the last event observed for it.
C5_DispatchAfterQuiet ==
    Taken => whist.last_taken.at - whist.last_taken.event >= debounce_seconds

\* C6: no timestamp update is lost: the timestamp on which the loop removes
\* an entry is the one the map holds for the path at that moment.
C6_NoLostUpdate ==
    Taken => whist.last_taken.basis = whist.last_taken.stored

\* C7: once start_monitoring has stopped on the stop signal, every path the
\* loop took out of the pending map has been processed.
C7_StoppedClean ==
    watcher.pc = "stopped" => watcher.files_to_process = <<>>


\* the main thread is in the loop of start_monitoring or has left it on an
\* exception, and is not inside process_pending_files
BetweenPolls == watcher.pc \in {"sleep", "raised"}
PollDone == watcher.pc \in {"second_loop", "sleep", "raised"}

\* C23: a poll leaves no entry pending whose timestamp was debounce_seconds
\* old when the poll read the time, and every path a poll took out of the
\* map has been dispatched (moved, or dropped when no file is there) by the
\* time the poll is over.
C23_DispatchedAtPoll ==
    /\ PollDone =>
          \A i \in 1..Len(pending_files) :
              watcher.current_time - pending_files[i][2] < debounce_seconds
    /\ BetweenPolls => watcher.files_to_process = <<>>

(***************************************************************************)
(* archive_folder called repeatedly, on directories of the same name       *)
(***************************************************************************)
MaxArchives == 2   \* calls of archive_folder in one run

InboxCustomerDir == <<N_inbox, N_ACME>>
ArchiveDir == Join(RootDir, FolderValue("ARCHIVE"))
\* where a file may lie at the start of such a run
ArchiveSites == <<
    Append(CustomerDir, F_valid),
    Append(InboxCustomerDir, F_norev),
    Append(InboxDir, F_unknown) >>
ArchiveFs(S) ==
    [dirs |-> UNION {Prefixes(parent(ArchiveSites[i])) : i \in S} \cup Prefixes(RootDir),
     files |-> [p \in {ArchiveSites[i] : i \in S} \cup {LogPath} |->
                  IF p = LogPath THEN LogContent
                  ELSE CHOOSE i \in S : ArchiveSites[i] = p]]
\* the folder_path arguments: directories, a regular file, a path with nothing at it
ArchiveTargets ==
    {CustomerDir, InboxCustomerDir, InboxDir, Append(CustomerDir, F_valid), MissingPath}

InitArchive ==
    /\ cfg \in {c \in EngineConfigs :
                   ~c.hierarchical /\ ~c.enforce_naming /\ ~c.auto_rename}
    /\ \E S \in SUBSET (1..Len(ArchiveSites)) : fs = ArchiveFs(S)
    /\ clock = 0
    /\ naming_violations = <<>>
    /\ scan = ScanIdle
    /\ last = NoOp
    /\ pre = fs
    /\ ops = 0
    /\ fname = <<>>
    /\ call = NoCall
    /\ InitNoWatcher
    /\ InitNoHub

\* one more call of archive_folder
ArchiveAgain(source) ==
    /\ ops < MaxArchives
    /\ fs' = archive_folder(fs, cfg, clock, source)
    /\ last' = [kind |-> "archive_folder", source |-> source]
    /\ pre' = fs
    /\ ops' = ops + 1
    /\ UNCHANGED <<cfg, clock, naming_violations, scan, nameVars, hubVars, watchVars>>

NextArchive ==
    \/ Tick
    \/ \E d \in ArchiveTargets : ArchiveAgain(d)

SpecArchive == InitArchive /\ [][NextArchive]_vars

(***************************************************************************)
(* Properties of archive_folder                                            *)
(***************************************************************************)
Under(f, d) == {p \in f.dirs \cup DOMAIN f.files : IsPrefix(d, p)}

\* C16: archive_folder (dry-run off) on a directory moves it with all its
\* files to ARCHIVE / <name>_<timestamp>; whatever lay in a directory of
\* ARCHIVE before the call lies there unchanged after it, with nothing added;
\* a call on a path that is no directory changes nothing.
C16_ArchiveSafe ==
    LET Archived(src, dest) ==
            /\ ~exists(fs, src)
            /\ \A f \in DOMAIN pre.files :
                  IsPrefix(src, f) =>
                      /\ is_file(fs, Rebase(f, src, dest))
                      /\ fs.files[Rebase(f, src, dest)] = pre.files[f]
    IN  last.kind = "archive_folder" =>
            /\ ~is_dir(pre, last.source) => fs = pre
            /\ (is_dir(pre, last.source) /\ ~cfg.dry_run) =>
                  \E c \in 0..MaxClock :
                      Archived(last.source,
                               Append(ArchiveDir,
                                      name(last.source) \o <<"_">> \o Timestamp(c)))
            /\ \A d \in pre.dirs :
                  parent(d) = ArchiveDir =>
                      /\ Under(fs, d) = Under(pre, d)
                      /\ \A f \in DOMAIN pre.files :
                            IsPrefix(d, f) => fs.files[f] = pre.files[f]


(***************************************************************************)
(* Construction with or without an external configuration.  The module     *)
(* imports config when it can (USE_CUSTOM_CONFIG); __init__ then replaces  *)
(* class data on the instance.  The instance is cfg, extended here with    *)
(* the four attributes a configuration may replace.                        *)
(***************************************************************************)
\* no module named config: the import raises ImportError
NoConfig == [present |-> FALSE]
\* a configuration equal to the defaults, as config.example.py is
ExampleConfig ==
    [present |-> TRUE,
     CUSTOM_FOLDERS |-> FOLDERS,
     CUSTOM_FILE_CATEGORIES |-> FILE_CATEGORIES,
     CUSTOM_PART_NUMBER_PATTERNS |-> PART_NUMBER_PATTERNS,
     CUSTOM_REVISION_PATTERNS |-> REVISION_PATTERNS]
\* a configuration of its own: CAD files are .mdl and go to Models, part
\* numbers read r'(PN\d+)', revisions r'ISSUE(\d+)'
ShopConfig ==
    [present |-> TRUE,
     CUSTOM_FOLDERS |->
         [i \in 1..Len(FOLDERS) |->
             IF FOLDERS[i].key = "CAD"
             THEN [key |-> "CAD", value |-> <<"M", "o", "d", "e", "l", "s">>]
             ELSE FOLDERS[i]],
     CUSTOM_FILE_CATEGORIES |-> <<[key |-> "CAD", exts |-> <<<<".", "m", "d", "l">>>>]>>,
     CUSTOM_PART_NUMBER_PATTERNS |->
         <<<<Alt(<<Lit("P"), Lit("N"), Plus(DigitSet)>>, 1, 3, FALSE, FALSE)>>>>,
     CUSTOM_REVISION_PATTERNS |->
         <<<<Alt(<<Lit("I"), Lit("S"), Lit("S"), Lit("U"), Lit("E"), Plus(DigitSet)>>,
                 6, 6, FALSE, FALSE)>>>>]
Imports == {NoConfig, ExampleConfig, ShopConfig}

\* the names hasattr(self, name) finds on the instance at lines 125 and 127:
\* the class attributes and what __init__ has set so far
InstanceAttributes ==
    {"LOG_FILENAME", "FOLDERS", "FILE_CATEGORIES", "PART_NUMBER_PATTERNS",
     "REVISION_PATTERNS", "NAMING_CONVENTION_PATTERN", "root_dir", "dry_run",
     "hierarchical", "enforce_naming", "auto_rename", "forced_customer",
     "naming_violations"}
hasattr(attribute) == attribute \in InstanceAttributes

\* ShopSteward.__init__ with the module's config import as it turned out
ShopSteward_init(config) ==
    LET USE_CUSTOM_CONFIG == config.present
    IN  [root_dir |-> RootDir, dry_run |-> FALSE, hierarchical |-> FALSE,
         enforce_naming |-> FALSE, auto_rename |-> FALSE, forced_customer |-> None,
         FOLDERS |-> IF USE_CUSTOM_CONFIG THEN config.CUSTOM_FOLDERS ELSE FOLDERS,
         FILE_CATEGORIES |->
             IF USE_CUSTOM_CONFIG THEN config.CUSTOM_FILE_CATEGORIES ELSE FILE_CATEGORIES,
         PART_NUMBER_PATTERNS |->
             IF USE_CUSTOM_CONFIG /\ hasattr("CUSTOM_PART_NUMBER_PATTERNS")
             THEN config.CUSTOM_PART_NUMBER_PATTERNS ELSE PART_NUMBER_PATTERNS,
         REVISION_PATTERNS |->
             IF USE_CUSTOM_CONFIG /\ hasattr("CUSTOM_REVISION_PATTERNS")
             THEN config.CUSTOM_REVISION_PATTERNS ELSE REVISION_PATTERNS]

ConfigNames ==
    {<<"P", "N", "7", "7", "_", "I", "S", "S", "U", "E", "3", "_", "x", ".", "m", "d", "l">>,
     F_valid, F_norev, F_unknown}
        \cup {n \in StructuredNames : Len(n) <= 7}

InitConfig ==
    /\ \E config \in Imports :
          /\ cfg = ShopSteward_init(config)
          /\ last = [kind |-> "__init__", config |-> config]
    /\ fs = InitialFs({})
    /\ clock = 0
    /\ naming_violations = <<>>
    /\ scan = ScanIdle
    /\ pre = fs
    /\ ops = 0
    /\ fname \in ConfigNames
    /\ call = NoCall
    /\ InitNoWatcher
    /\ InitNoHub

RECURSIVE CategoryIn(_, _, _)
\* the loop of categorize_file over self.FILE_CATEGORIES
CategoryIn(categories, k, extension) ==
    IF k > Len(categories) THEN NoCategory
    ELSE IF \E i \in 1..Len(categories[k].exts) : categories[k].exts[i] = extension
         THEN categories[k].key
         ELSE CategoryIn(categories, k + 1, extension)

\* the methods, reading the attributes of the instance
InstanceExtractPartNumber ==
    /\ call = NoCall
    /\ call' = [fn |-> "extract_part_number", arg |-> fname,
                result |-> FirstGroup(cfg.PART_NUMBER_PATTERNS, 1, fname)]
    /\ UNCHANGED <<fname, engineVars, watchVars, hubVars>>
InstanceExtractRevision ==
    /\ call = NoCall
    /\ call' = [fn |-> "extract_revision", arg |-> fname,
                result |-> FirstGroup(cfg.REVISION_PATTERNS, 1, fname)]
    /\ UNCHANGED <<fname, engineVars, watchVars, hubVars>>
InstanceCategorize ==
    /\ call = NoCall
    /\ call' = [fn |-> "categorize_file", arg |-> fname,
                result |-> CategoryIn(cfg.FILE_CATEGORIES, 1, lower(suffix(fname)))]
    /\ UNCHANGED <<fname, engineVars, watchVars, hubVars>>

NextConfig ==
    \/ InstanceExtractPartNumber
    \/ InstanceExtractRevision
    \/ InstanceCategorize

SpecConfig == InitConfig /\ [][NextConfig]_vars

\* C18: at every moment of an instance's life its folder layout, category
\* rules, part-number patterns and revision patterns are those of the
\* configuration when one was imported, and the built-in ones when none was.
C18_ActiveSet ==
    IF last.config.present
    THEN /\ cfg.FOLDERS = last.config.CUSTOM_FOLDERS
         /\ cfg.FILE_CATEGORIES = last.config.CUSTOM_FILE_CATEGORIES
         /\ cfg.PART_NUMBER_PATTERNS = last.config.CUSTOM_PART_NUMBER_PATTERNS
         /\ cfg.REVISION_PATTERNS = last.config.CUSTOM_REVISION_PATTERNS
    ELSE /\ cfg.FOLDERS = FOLDERS
         /\ cfg.FILE_CATEGORIES = FILE_CATEGORIES
         /\ cfg.PART_NUMBER_PATTERNS = PART_NUMBER_PATTERNS
         /\ cfg.REVISION_PATTERNS = REVISION_PATTERNS

(***************************************************************************)
(* The watcher's handling of a file next to the handling the loop of       *)
(* organize_files gives the same file on the same filesystem               *)
(***************************************************************************)
MaxDispatches == 2   \* files the watcher dispatches in one run

\* the sites a dispatched file may lie at: the watched directory may be
\* root_dir itself, the observer is recursive
DispatchSites == 1..6
DispatchConfigs == {c \in EngineConfigs : ~c.dry_run}

InitDispatch ==
    /\ cfg \in DispatchConfigs
    /\ \E S \in SUBSET DispatchSites :
          /\ Cardinality(S) \in 1..2
          /\ fs = InitialFs(S)
    /\ clock = 0
    /\ naming_violations = <<>>
    /\ scan = ScanIdle
    /\ last = NoOp
    /\ pre = fs
    /\ ops = 0
    /\ fname = <<>>
    /\ call = NoCall
    /\ InitNoWatcher
    /\ InitNoHub

\* the second loop of process_pending_files reaches file_path; what the loop
\* body of organize_files would do with it is recorded next to it
Dispatch(file_path) ==
    /\ ops < MaxDispatches
    /\ is_file(fs, file_path)
    /\ name(file_path)[1] # "."
    /\ name(file_path) # LOG_FILENAME
    /\ LET Moved(w, s) ==
               /\ fs' = w.fs
               /\ last' = [kind |-> "dispatch", file |-> file_path,
                           raised |-> w.raised, ret |-> w.ret, dest_path |-> w.dest_path,
                           scanned |-> s.fs, skipped |-> s.skipped]
       IN  Moved(process_pending_file(fs, cfg, clock, file_path),
                 ProcessEntry(fs, cfg, clock, naming_violations, file_path))
    /\ pre' = fs
    /\ ops' = ops + 1
    /\ UNCHANGED <<cfg, clock, naming_violations, scan, nameVars, hubVars, watchVars>>

NextDispatch == Tick \/ \E p \in DOMAIN fs.files : Dispatch(p)
SpecDispatch == InitDispatch /\ [][NextDispatch]_vars

(***************************************************************************)
(* Properties of the watcher's dispatch                                    *)
(***************************************************************************)
\* where every file but the log lies, and under which name
Placement(f) == [p \in DOMAIN f.files \ {LogPath} |-> f.files[p]]

\* C24: a file the watcher dispatches ends where the loop of organize_files
\* would have put it, under the same name, for every engine configuration.
C24_SamePipeline ==
    last.kind = "dispatch" => Placement(fs) = Placement(last.scanned)

(***************************************************************************)
(* organize_files run again and again over root_dir, on one instance       *)
(***************************************************************************)
MaxRuns == 2   \* complete scans of root_dir in one run

\* the files lie anywhere but in the way of a folder of the layout
RerunSites == {1, 2, 3, 4, 5, 6, 9}

InitRerun ==
    /\ cfg \in {c \in EngineConfigs : ~c.dry_run}
    /\ \E S \in SUBSET RerunSites :
          /\ Cardinality(S) \in 1..2
          /\ fs = InitialFs(S)
    /\ clock = 0
    /\ naming_violations = <<>>
    /\ scan = ScanIdle
    /\ last = NoOp
    /\ pre = fs
    /\ ops = 0
    /\ fname = <<>>
    /\ call = NoCall
    /\ InitNoWatcher
    /\ InitNoHub

\* organize_files() once more: source_dir is root_dir, recursive is True
OrganizeRoot ==
    /\ ~scan.active
    /\ ops < MaxRuns
    /\ StartScan(cfg.root_dir, TRUE)

NextRerun == Tick \/ OrganizeRoot \/ OrganizeEntry \/ OrganizeDescend \/ OrganizeEnd
SpecRerun == InitRerun /\ [][NextRerun]_vars

(***************************************************************************)
(* Properties of repeated scans                                            *)
(***************************************************************************)
\* C26: after one complete organize of root_dir with dry-run off, a further
\* recursive organize of root_dir processes no file and leaves every file
\* at its path, under its name.
C26_OrganizeIdempotent ==
    (ScanEnded /\ ops >= 2) =>
        /\ last.files_processed = 0
        /\ Placement(fs) = Placement(last.start_fs)

(***************************************************************************)
(* HousekeeperModule (src/backend/app/modules/housekeeper.py): the wrapper *)
(* of The Hub around an engine instance.  housekeeper.shop_steward tells   *)
(* whether self.shop_steward holds an instance (TRUE) or None (FALSE).     *)
(***************************************************************************)
MaxHubCalls == 3   \* calls on the module in one run

\* the methods class ShopSteward defines
ShopStewardMethods ==
    {"setup_logging", "extract_part_number", "extract_revision",
     "validate_naming_convention", "suggest_filename", "rename_file_to_convention",
     "check_and_fix_naming", "generate_naming_report", "extract_customer_from_path",
     "create_hierarchical_structure", "get_hierarchical_destination",
     "create_folder_structure", "categorize_file", "move_file", "organize_files",
     "archive_folder"}
\* the keyword arguments archive_folder accepts besides folder_path
ArchiveFolderKeywords == {}

\* the configuration of the module: root_dir exists (the log file can be
\* opened) or not, monitor_path is configured or not
HousekeeperConfigs == [root_dir_exists : BOOLEAN, monitor_path : {None, InboxDir}]

InitHousekeeper ==
    /\ cfg = DefaultConfig
    /\ fs = InitialFs({})
    /\ clock = 0
    /\ naming_violations = <<>>
    /\ scan = ScanIdle
    /\ last = NoOp
    /\ pre = fs
    /\ ops = 0
    /\ fname = <<>>
    /\ call = NoCall
    /\ InitNoWatcher
    /\ workflow = NotConstructed
    /\ \E available \in BOOLEAN, config \in HousekeeperConfigs :
          housekeeper = [constructed |-> TRUE,
                         SHOP_STEWARD_AVAILABLE |-> available,
                         config |-> config,
                         shop_steward |-> FALSE,
                         monitor_path |-> None,
                         is_monitoring |-> FALSE,
                         activated |-> "never"]

\* start_monitoring(path): [hk, ret]
start_monitoring(hk, path) ==
    IF ~hk.shop_steward THEN [hk |-> hk, ret |-> FALSE]
    ELSE [hk |-> [hk EXCEPT !.monitor_path = path, !.is_monitoring = TRUE], ret |-> TRUE]
\* stop_monitoring(): [hk, ret]
stop_monitoring(hk) ==
    [hk |-> [hk EXCEPT !.monitor_path = None, !.is_monitoring = FALSE], ret |-> TRUE]
\* activate(): [hk, ret].  ShopSteward(...) raises when the log file cannot
\* be opened; the instance is assigned before init_folders is called on it
activate(hk) ==
    LET Initialized(h) ==
            IF h.config.monitor_path # None
            THEN [hk |-> start_monitoring(h, h.config.monitor_path).hk, ret |-> TRUE]
            ELSE [hk |-> h, ret |-> TRUE]
        Constructed(h) ==
            IF "init_folders" \notin ShopStewardMethods
            THEN [hk |-> h, ret |-> FALSE]
            ELSE Initialized(h)
    IN  IF ~hk.SHOP_STEWARD_AVAILABLE THEN [hk |-> hk, ret |-> FALSE]
        ELSE IF ~hk.config.root_dir_exists THEN [hk |-> hk, ret |-> FALSE]
        ELSE Constructed([hk EXCEPT !.shop_steward = TRUE])
\* deactivate(): [hk, ret]
deactivate(hk) ==
    LET Stopped(h) == [hk |-> [h EXCEPT !.shop_steward = FALSE], ret |-> TRUE]
    IN  Stopped(IF hk.is_monitoring THEN stop_monitoring(hk).hk ELSE hk)
\* process(data): the result's success and error.  A method the engine does
\* not have, or a keyword it does not accept, raises inside the try
process(hk, action, path, dry_run) ==
    IF ~hk.shop_steward THEN [success |-> FALSE, error |-> "Housekeeper not activated"]
    ELSE IF action = "organize"
    THEN IF path = None THEN [success |-> FALSE, error |-> "Path required for organize action"]
         ELSE IF "organize_directory" \notin ShopStewardMethods
         THEN [success |-> FALSE, error |-> "AttributeError"]
         ELSE [success |-> TRUE, error |-> "None"]
    ELSE IF action = "archive"
    THEN IF path = None THEN [success |-> FALSE, error |-> "Path required for archive action"]
         ELSE IF "dry_run" \notin ArchiveFolderKeywords
         THEN [success |-> FALSE, error |-> "TypeError"]
         ELSE [success |-> TRUE, error |-> "None"]
    ELSE IF action = "init"
    THEN IF "init_folders" \notin ShopStewardMethods
         THEN [success |-> FALSE, error |-> "AttributeError"]
         ELSE [success |-> TRUE, error |-> "None"]
    ELSE [success |-> FALSE, error |-> "Unknown action"]
\* get_status(): healthy and monitoring
get_status(hk) == [healthy |-> hk.shop_steward, monitoring |-> hk.is_monitoring]

\* a call on the module: its effect on the instance and what it returns
HubCall(kind, hk, ret) ==
    /\ ops < MaxHubCalls
    /\ housekeeper' = hk
    /\ last' = [kind |-> kind, returned |-> ret]
    /\ ops' = ops + 1
    /\ UNCHANGED <<fs, cfg, clock, naming_violations, scan, pre, nameVars, watchVars, workflow>>

HousekeeperActivate ==
    LET Returned(r) ==
            HubCall("activate", [r.hk EXCEPT !.activated = IF r.ret THEN "true" ELSE "false"],
                    r.ret)
    IN  Returned(activate(housekeeper))
HousekeeperDeactivate ==
    LET Returned(r) == HubCall("deactivate", [r.hk EXCEPT !.activated = "deactivated"], r.ret)
    IN  Returned(deactivate(housekeeper))
HousekeeperProcess(action, path) ==
    HubCall("process", housekeeper, process(housekeeper, action, path, FALSE))
HousekeeperGetStatus == HubCall("get_status", housekeeper, get_status(housekeeper))
HousekeeperStartMonitoring(path) ==
    LET Returned(r) == HubCall("start_monitoring", r.hk, r.ret)
    IN  Returned(start_monitoring(housekeeper, path))
HousekeeperStopMonitoring ==
    LET Returned(r) == HubCall("stop_monitoring", r.hk, r.ret)
    IN  Returned(stop_monitoring(housekeeper))

HubActions == {"organize", "archive", "init", "report"}
NextHousekeeper ==
    \/ HousekeeperActivate
    \/ HousekeeperDeactivate
    \/ \E action \in HubActions, path \in {None, InboxDir} : HousekeeperProcess(action, path)
    \/ HousekeeperGetStatus
    \/ HousekeeperStartMonitoring(InboxDir)
    \/ HousekeeperStopMonitoring
SpecHousekeeper == InitHousekeeper /\ [][NextHousekeeper]_vars

(***************************************************************************)
(* Properties of the Housekeeper                                           *)
(***************************************************************************)
\* C29: the module holds an engine instance only if its latest activate
\* returned True and no deactivate followed; after an activate that
\* returned False, process answers 'Housekeeper not activated', get_status
\* reports healthy = false, and monitoring is off.
C29_HeldOnlyWhileActivated ==
    /\ housekeeper.shop_steward => housekeeper.activated = "true"
    /\ housekeeper.activated = "false" =>
          /\ ~housekeeper.is_monitoring
          /\ last.kind = "process" => last.returned.error = "Housekeeper not activated"
          /\ last.kind = "get_status" => ~last.returned.healthy

(***************************************************************************)
(* WorkflowManager (src/workflow.py).  workflow.jobs maps a job id to the  *)
(* Job, workflow.programmers a name to its counters.  A job id is          *)
(* customer_part_revision_<second>: with one customer, part and revision   *)
(* it is the second of its creation.  A timestamp that is None is -1.      *)
(***************************************************************************)
MaxJobCalls == 4   \* calls on the WorkflowManager in one run

Programmers == {<<"a", "n", "n">>, <<"b", "o", "b">>}
\* the job ids a call may name: every second of the run, and -1 for an id
\* no job ever has
JobIds == -1..MaxClock

InitWorkflow ==
    /\ cfg = DefaultConfig
    /\ fs = InitialFs({})
    /\ clock = 0
    /\ naming_violations = <<>>
    /\ scan = ScanIdle
    /\ last = NoOp
    /\ pre = fs
    /\ ops = 0
    /\ fname = <<>>
    /\ call = NoCall
    /\ InitNoWatcher
    /\ housekeeper = NotConstructed
    /\ workflow = [constructed |-> TRUE, jobs |-> <<>>, programmers |-> <<>>]

\* self.jobs[job_id] = job, self.programmers[programmer] = counters
Store(map, key, value) == [k \in DOMAIN map \cup {key} |-> IF k = key THEN value ELSE map[k]]

\* create_job(...): [wf, ret]; ret is the id of the job
create_job(wf, now) ==
    [wf |-> [wf EXCEPT !.jobs = Store(@, now,
                 [status |-> "INTAKE", programmer |-> None, created_at |-> now,
                  assigned_at |-> -1, started_at |-> -1, completed_at |-> -1,
                  reviewed_at |-> -1])],
     ret |-> now]
\* assign_job(job_id, programmer): [wf, ret]
assign_job(wf, now, job_id, programmer) ==
    IF job_id \notin DOMAIN wf.jobs THEN [wf |-> wf, ret |-> FALSE]
    ELSE LET Counted(counters) ==
                 [wf |-> [wf EXCEPT
                     !.jobs[job_id] = [@ EXCEPT !.programmer = programmer,
                                                !.status = "QUEUED",
                                                !.assigned_at = now],
                     !.programmers = Store(@, programmer,
                         [counters EXCEPT !.active_jobs = @ + 1])],
                  ret |-> TRUE]
         IN  Counted(IF programmer \in DOMAIN wf.programmers
                     THEN wf.programmers[programmer]
                     ELSE [active_jobs |-> 0, completed_jobs |-> 0])
\* start_job(job_id): [wf, ret]
start_job(wf, now, job_id) ==
    IF job_id \notin DOMAIN wf.jobs THEN [wf |-> wf, ret |-> FALSE]
    ELSE [wf |-> [wf EXCEPT !.jobs[job_id] =
                     [@ EXCEPT !.status = "IN_PROGRESS", !.started_at = now]],
          ret |-> TRUE]
\* complete_job(job_id): [wf, ret]
complete_job(wf, now, job_id) ==
    IF job_id \notin DOMAIN wf.jobs THEN [wf |-> wf, ret |-> FALSE]
    ELSE [wf |-> [wf EXCEPT !.jobs[job_id] =
                     [@ EXCEPT !.status = "REVIEW", !.completed_at = now]],
          ret |-> TRUE]
\* approve_job(job_id): [wf, ret]
approve_job(wf, now, job_id) ==
    IF job_id \notin DOMAIN wf.jobs THEN [wf |-> wf, ret |-> FALSE]
    ELSE LET Approved(w, programmer) ==
                 IF programmer # None /\ programmer \in DOMAIN w.programmers
                 THEN [wf |-> [w EXCEPT !.programmers[programmer] =
                                  [@ EXCEPT !.active_jobs = @ - 1,
                                            !.completed_jobs = @ + 1]],
                       ret |-> TRUE]
                 ELSE [wf |-> w, ret |-> TRUE]
         IN  Approved([wf EXCEPT !.jobs[job_id] =
                          [@ EXCEPT !.status = "READY", !.reviewed_at = now]],
                      wf.jobs[job_id].programmer)

\* a call on the manager: what it was called on, what it returned and what
\* the manager held before
WorkflowCall(kind, job_id, r) ==
    /\ ops < MaxJobCalls
    /\ workflow' = r.wf
    /\ last' = [kind |-> kind, job_id |-> job_id, returned |-> r.ret, before |-> workflow]
    /\ ops' = ops + 1
    /\ UNCHANGED <<fs, cfg, clock, naming_violations, scan, pre, nameVars, watchVars,
                   housekeeper>>

CreateJob == WorkflowCall("create_job", -1, create_job(workflow, clock))
AssignJob(job_id, programmer) ==
    WorkflowCall("assign_job", job_id, assign_job(workflow, clock, job_id, programmer))
StartJob(job_id) == WorkflowCall("start_job", job_id, start_job(workflow, clock, job_id))
CompleteJob(job_id) ==
    WorkflowCall("complete_job", job_id, complete_job(workflow, clock, job_id))
ApproveJob(job_id) == WorkflowCall("approve_job", job_id, approve_job(workflow, clock, job_id))

NextWorkflow ==
    \/ Tick
    \/ CreateJob
    \/ \E job_id \in JobIds, programmer \in Programmers : AssignJob(job_id, programmer)
    \/ \E job_id \in JobIds : StartJob(job_id)
    \/ \E job_id \in JobIds : CompleteJob(job_id)
    \/ \E job_id \in JobIds : ApproveJob(job_id)
SpecWorkflow == InitWorkflow /\ [][NextWorkflow]_vars

(***************************************************************************)
(* Properties of the WorkflowManager                                       *)
(***************************************************************************)
\* the status a transition requires of its job
RequiredStatus ==
    [assign_job |-> "INTAKE", start_job |-> "QUEUED",
     complete_job |-> "IN_PROGRESS", approve_job |-> "REVIEW"]
Ordered(a, b) == a = -1 \/ b = -1 \/ a <= b

\* C30: assign_job succeeds only on an INTAKE job, start_job only on a
\* QUEUED job, complete_job only on an IN_PROGRESS job, approve_job only on
\* a REVIEW job; a call that returns False leaves the manager as it was;
\* started_at <= completed_at <= reviewed_at whenever they are set, and no
\* active_jobs counter is negative.
C30_StatusOnlyAdvances ==
    /\ last.kind \in DOMAIN RequiredStatus =>
          IF last.returned
          THEN /\ last.job_id \in DOMAIN last.before.jobs
               /\ last.before.jobs[last.job_id].status = RequiredStatus[last.kind]
          ELSE workflow = last.before
    /\ \A j \in DOMAIN workflow.jobs :
          /\ Ordered(workflow.jobs[j].started_at, workflow.jobs[j].completed_at)
          /\ Ordered(workflow.jobs[j].completed_at, workflow.jobs[j].reviewed_at)
    /\ \A p \in DOMAIN workflow.programmers : workflow.programmers[p].active_jobs >= 0

====
